---- MODULE Spec2Model ----
(***************************************************************************)
(* Gomoku move-selection engine (src/src/ai/mcts-worker.ts,                *)
(* src/src/ai/patterns.ts), its board utilities (utils/gameLogic) and the  *)
(* host Game component.                                                    *)
(*                                                                         *)
(* Boards are 15x15 grids indexed board[r][c] with r, c in 0..14, as in    *)
(* the source.  A coordinate pair [r, c] is the tuple <<r, c>>; the        *)
(* JavaScript null that stands for "no move" is the empty tuple.           *)
(***************************************************************************)
EXTENDS Integers, Sequences, FiniteSets, TLC

\* ------------------------------------------------------------------------
\* gameLogic: board utilities
\* ------------------------------------------------------------------------

BOARD_SIZE == 15

Idx == 0 .. (BOARD_SIZE - 1)

\* JavaScript null / "no move"
NoMove == <<>>

\* const toIndex = (r, c) => r * BOARD_SIZE + c
toIndex(r, c) == r * BOARD_SIZE + c

\* const fromIndex = (i) => [Math.floor(i / BOARD_SIZE), ColOf(i)]
RowOf(i) == i \div BOARD_SIZE

ColOf(i) == i % BOARD_SIZE

\* fromIndex without the modulo: [Math.floor(i / BOARD_SIZE), i]
fromIndex_NoModulo(i) == << RowOf(i), i >>

fromIndex(i) == << RowOf(i), ColOf(i) >>

InBounds(r, c) == r >= 0 /\ r < BOARD_SIZE /\ c >= 0 /\ c < BOARD_SIZE

\* player === 1 ? 2 : 1   (also applied to values outside {1, 2})
Other(player) == IF player = 1 THEN 2 ELSE 1

createEmptyBoard == [r \in Idx |-> [c \in Idx |-> 0]]

\* copyBoard at the level of values: board.map(row => [...row])
copyBoard(board) == [r \in Idx |-> [c \in Idx |-> board[r][c]]]

\* makeMove for an in-range coordinate, at the level of values: the copy
\* with newBoard[row][col] = player (no occupancy test in the source).
makeMove(board, row, col, player) ==
    [copyBoard(board) EXCEPT ![row][col] = player]

isValidMove(board, row, col) == InBounds(row, col) /\ board[row][col] = 0

isBoardFull(board) == \A r \in Idx : \A c \in Idx : board[r][c] # 0

\* The number of consecutive cells holding `player`, starting AT (r, c) and
\* walking by (dr, dc) while in bounds: the while loops of checkWin and
\* detectPattern.
RECURSIVE RunLength(_, _, _, _, _, _)
RunLength(board, r, c, dr, dc, player) ==
    IF InBounds(r, c) /\ board[r][c] = player
    THEN 1 + RunLength(board, r + dr, c + dc, dr, dc, player)
    ELSE 0

\* checkWin's direction pairs, in order
WinDirections == << <<0, 1>>, <<1, 0>>, <<1, 1>>, <<1, -1>> >>

\* line.length with the walk in the first direction of the pair only
LineLength_ForwardOnly(board, lastRow, lastCol, d) ==
    1 + RunLength(board, lastRow + d[1], lastCol + d[2], d[1], d[2],
                  board[lastRow][lastCol])

\* line.length for one direction pair of checkWin
LineLength(board, lastRow, lastCol, d) ==
    1 + RunLength(board, lastRow + d[1], lastCol + d[2], d[1], d[2],
                  board[lastRow][lastCol])
      + RunLength(board, lastRow - d[1], lastCol - d[2], -d[1], -d[2],
                  board[lastRow][lastCol])

\* checkWin(board, lastRow, lastCol).winner, with 0 for "winner: null"
checkWin(board, lastRow, lastCol) ==
    IF board[lastRow][lastCol] = 0 THEN 0
    ELSE IF \E k \in 1 .. 4 :
                LineLength(board, lastRow, lastCol, WinDirections[k]) >= 5
         THEN board[lastRow][lastCol]
         ELSE 0

\* ------------------------------------------------------------------------
\* patterns.ts
\* ------------------------------------------------------------------------

\* const directions = [[1, 0], [0, 1], [1, 1], [1, -1]]
directions == << <<1, 0>>, <<0, 1>>, <<1, 1>>, <<1, -1>> >>

\* detectPattern without its forward walk
detectPattern_BackwardOnly(board, row, col, dr, dc, player) ==
    LET bwd == RunLength(board, row - dr, col - dc, -dr, -dc, player)
        br  == row - (bwd + 1) * dr
        bc  == col - (bwd + 1) * dc
        openB == IF InBounds(br, bc) /\ board[br][bc] = 0 THEN 1 ELSE 0
    IN  [count |-> 1 + bwd, openEnds |-> openB]

\* detectPattern counting an end as open whenever it is in bounds
detectPattern_OccupiedEndsOpen(board, row, col, dr, dc, player) ==
    LET fwd == RunLength(board, row + dr, col + dc, dr, dc, player)
        bwd == RunLength(board, row - dr, col - dc, -dr, -dc, player)
        openF == IF InBounds(row + (fwd + 1) * dr, col + (fwd + 1) * dc)
                 THEN 1 ELSE 0
        openB == IF InBounds(row - (bwd + 1) * dr, col - (bwd + 1) * dc)
                 THEN 1 ELSE 0
    IN  [count |-> 1 + fwd + bwd, openEnds |-> openF + openB]

\* detectPattern: count and openEnds for a hypothetical stone at (row, col)
detectPattern(board, row, col, dr, dc, player) ==
    LET fwd == RunLength(board, row + dr, col + dc, dr, dc, player)
        bwd == RunLength(board, row - dr, col - dc, -dr, -dc, player)
        fr  == row + (fwd + 1) * dr
        fc  == col + (fwd + 1) * dc
        br  == row - (bwd + 1) * dr
        bc  == col - (bwd + 1) * dc
        openF == IF InBounds(fr, fc) /\ board[fr][fc] = 0 THEN 1 ELSE 0
        openB == IF InBounds(br, bc) /\ board[br][bc] = 0 THEN 1 ELSE 0
    IN  [count |-> 1 + fwd + bwd, openEnds |-> openF + openB]

\* The empty cells, as flat indices, at which some direction reaches `n`
CellsWithCount(board, player, n) ==
    { i \in 0 .. (BOARD_SIZE * BOARD_SIZE - 1) :
        /\ board[RowOf(i)][ColOf(i)] = 0
        /\ \E k \in 1 .. 4 :
              detectPattern(board, RowOf(i), ColOf(i),
                            directions[k][1], directions[k][2],
                            player).count >= n }

\* The scan keeping its last match instead of returning at the first
FirstCell_Last(S) ==
    IF S = {} THEN NoMove
    ELSE fromIndex(CHOOSE i \in S : \A j \in S : i >= j)

\* The first element of a set of flat indices in row-major scan order, as
\* [r, c]; null when the scan finds nothing.
FirstCell(S) ==
    IF S = {} THEN NoMove
    ELSE fromIndex(CHOOSE i \in S : \A j \in S : i <= j)

\* The elements of a set of flat indices in row-major scan order
RECURSIVE InScanOrder(_)
InScanOrder(S) ==
    IF S = {} THEN << >>
    ELSE LET i == CHOOSE x \in S : \A y \in S : x <= y
         IN  << i >> \o InScanOrder(S \ {i})

\* findWinningMove with the test count > 5
findWinningMove_Over5(board, player) ==
    FirstCell(CellsWithCount(board, player, 6))

findWinningMove(board, player) == FirstCell(CellsWithCount(board, player, 5))

findFour(board, player) == FirstCell(CellsWithCount(board, player, 4))

\* findOpenThree returning at its first match
findOpenThree_FirstOnly(board, player) ==
    LET S == { i \in 0 .. (BOARD_SIZE * BOARD_SIZE - 1) :
                 /\ board[RowOf(i)][ColOf(i)] = 0
                 /\ \E k \in 1 .. 4 :
                       LET p == detectPattern(board, RowOf(i), ColOf(i),
                                              directions[k][1],
                                              directions[k][2], player)
                       IN  p.count = 3 /\ p.openEnds = 2 }
    IN  IF S = {} THEN << >> ELSE << CHOOSE i \in S : \A j \in S : i <= j >>

\* findOpenThree: every empty cell with count == 3 and openEnds == 2 on some
\* direction, once each, in scan order (flat indices)
findOpenThree(board, player) ==
    InScanOrder(
      { i \in 0 .. (BOARD_SIZE * BOARD_SIZE - 1) :
          /\ board[RowOf(i)][ColOf(i)] = 0
          /\ \E k \in 1 .. 4 :
                LET p == detectPattern(board, RowOf(i), ColOf(i),
                                       directions[k][1], directions[k][2],
                                       player)
                IN  p.count = 3 /\ p.openEnds = 2 })

\* getForcingMoves with the test count >= 5
getForcingMoves_OnlyFives(board, player) ==
    InScanOrder(CellsWithCount(board, player, 5))

\* getForcingMoves: every empty cell with count >= 4 on some direction, in
\* scan order (flat indices)
getForcingMoves(board, player) == InScanOrder(CellsWithCount(board, player, 4))

\* ------------------------------------------------------------------------
\* mcts-worker.ts: opening book, influence pick, VCF solver, candidates
\* ------------------------------------------------------------------------

VCF_MAX_DEPTH == 12

\* The flat indices of the cells with board[r][c] !== 0
Stones(board) ==
    { i \in 0 .. (BOARD_SIZE * BOARD_SIZE - 1) :
        board[RowOf(i)][ColOf(i)] # 0 }

\* checkOpeningBook with the replies of the first two cases exchanged
checkOpeningBook_Swapped(board) ==
    LET stones == Stones(board)
    IN  IF Cardinality(stones) = 0 THEN <<8, 8>>
        ELSE IF Cardinality(stones) = 1 /\ toIndex(7, 7) \in stones
             THEN <<7, 7>>
        ELSE IF Cardinality(stones) = 2 /\ toIndex(7, 7) \in stones
             THEN <<8, 7>>
        ELSE NoMove

\* checkOpeningBook: [7,7] on the empty board, [8,8] when the only stone is
\* the centre, [8,7] when there are two stones and one is the centre (no
\* test that the cell is free), else null.
checkOpeningBook(board) ==
    LET stones == Stones(board)
    IN  IF Cardinality(stones) = 0 THEN <<7, 7>>
        ELSE IF Cardinality(stones) = 1 /\ toIndex(7, 7) \in stones
             THEN <<8, 8>>
        ELSE IF Cardinality(stones) = 2 /\ toIndex(7, 7) \in stones
             THEN <<8, 7>>
        ELSE NoMove

\* score of one candidate in getMoveWithInfluence: occupied cells within
\* radius 2, the cell itself excluded
InfluenceScore(board, moveIdx) ==
    Cardinality(
      { d \in (-2 .. 2) \X (-2 .. 2) :
          /\ ~(d[1] = 0 /\ d[2] = 0)
          /\ InBounds(RowOf(moveIdx) + d[1], ColOf(moveIdx) + d[2])
          /\ board[RowOf(moveIdx) + d[1]][ColOf(moveIdx) + d[2]] # 0 })

\* Elements of a sequence, as a set
Range(seq) == { seq[k] : k \in 1 .. Len(seq) }

\* getMoveWithInfluence: the values the call can return.  -1 without
\* candidates; else any of the best-scoring candidates (Math.random picks
\* among bestMoves).
getMoveWithInfluence(board, candidates) ==
    IF Len(candidates) = 0 THEN { -1 }
    ELSE { m \in Range(candidates) :
             \A n \in Range(candidates) :
                InfluenceScore(board, n) <= InfluenceScore(board, m) }

\* getCandidateMoves without the early return for a board without stones
getCandidateMoves_NoCentre(board) ==
    InScanOrder(
      { i \in 0 .. (BOARD_SIZE * BOARD_SIZE - 1) :
          /\ board[RowOf(i)][ColOf(i)] = 0
          /\ \E d \in (-2 .. 2) \X (-2 .. 2) :
               /\ InBounds(RowOf(i) + d[1], ColOf(i) + d[2])
               /\ board[RowOf(i) + d[1]][ColOf(i) + d[2]] # 0 })

\* getCandidateMoves with radius 1
getCandidateMoves_Radius1(board) ==
    IF Stones(board) = {}
    THEN << toIndex(BOARD_SIZE \div 2, BOARD_SIZE \div 2) >>
    ELSE InScanOrder(
           { i \in 0 .. (BOARD_SIZE * BOARD_SIZE - 1) :
               /\ board[RowOf(i)][ColOf(i)] = 0
               /\ \E d \in (-1 .. 1) \X (-1 .. 1) :
                    /\ InBounds(RowOf(i) + d[1], ColOf(i) + d[2])
                    /\ board[RowOf(i) + d[1]][ColOf(i) + d[2]] # 0 })

\* getCandidateMoves: the centre on a board without stones, else the empty
\* cells within radius 2 of a stone, ascending flat index.
getCandidateMoves(board) ==
    IF Stones(board) = {}
    THEN << toIndex(BOARD_SIZE \div 2, BOARD_SIZE \div 2) >>
    ELSE InScanOrder(
           { i \in 0 .. (BOARD_SIZE * BOARD_SIZE - 1) :
               /\ board[RowOf(i)][ColOf(i)] = 0
               /\ \E d \in (-2 .. 2) \X (-2 .. 2) :
                    /\ InBounds(RowOf(i) + d[1], ColOf(i) + d[2])
                    /\ board[RowOf(i) + d[1]][ColOf(i) + d[2]] # 0 })

\* A sequence without its repeated elements, first occurrences kept in
\* order (insertion into a JavaScript Set, then Array.from)
RECURSIVE Dedup(_)
Dedup(seq) ==
    IF Len(seq) = 0 THEN << >>
    ELSE LET init == Dedup(SubSeq(seq, 1, Len(seq) - 1))
         IN  IF seq[Len(seq)] \in Range(init) THEN init
             ELSE Append(init, seq[Len(seq)])

\* getExpansionMoves without the player's own forcing moves
getExpansionMoves_NoOwnForcing(board, player) ==
    LET opponent   == Other(player)
        blockWin   == findWinningMove(board, opponent)
        oppForcing == getForcingMoves(board, opponent)
        isUnderThreat == blockWin # NoMove \/ Len(oppForcing) > 0
        tacticalMoves ==
            Dedup((IF blockWin # NoMove
                   THEN << toIndex(blockWin[1], blockWin[2]) >> ELSE << >>)
                  \o oppForcing)
        myWins     == findWinningMove(board, player)
    IN  IF isUnderThreat /\ myWins # NoMove
        THEN << toIndex(myWins[1], myWins[2]) >>
        ELSE IF isUnderThreat /\ Len(tacticalMoves) > 0
        THEN tacticalMoves
        ELSE getCandidateMoves(board)

\* getExpansionMoves (threat-space integration)
getExpansionMoves(board, player) ==
    LET opponent   == Other(player)
        blockWin   == findWinningMove(board, opponent)
        oppForcing == getForcingMoves(board, opponent)
        isUnderThreat == blockWin # NoMove \/ Len(oppForcing) > 0
        myForcing  == getForcingMoves(board, player)
        tacticalMoves ==
            Dedup((IF blockWin # NoMove
                   THEN << toIndex(blockWin[1], blockWin[2]) >> ELSE << >>)
                  \o oppForcing \o myForcing)
        myWins     == findWinningMove(board, player)
    IN  IF isUnderThreat /\ myWins # NoMove
        THEN << toIndex(myWins[1], myWins[2]) >>
        ELSE IF isUnderThreat /\ Len(tacticalMoves) > 0
        THEN tacticalMoves
        ELSE getCandidateMoves(board)

\* The wall clock of solveVCF.  `checks` is the number of deadline tests
\* (Date.now() - startTime > VCF_TIME_LIMIT) that still come out false; the
\* clock only advances, so once a test is true every later one is.
\* NoDeadline stands for a search that ends before the deadline.
MaxDeadlineChecks == 2

NoDeadline == MaxDeadlineChecks + 1

Deadlines == 0 .. NoDeadline

Tick(checks) == IF checks = NoDeadline THEN checks ELSE checks - 1

\* solveVCF(board, player, depth, startTime): the returned move (or null)
\* and the deadline tests left.  VCFLoop is the for loop over forcingMoves
\* from its k-th element.
RECURSIVE solveVCF(_, _, _, _)
RECURSIVE VCFLoop(_, _, _, _, _, _)
solveVCF(board, player, depth, checks) ==
    IF depth = 0 THEN [move |-> NoMove, checks |-> checks]
    ELSE IF checks = 0 THEN [move |-> NoMove, checks |-> checks]
    ELSE LET forcingMoves == getForcingMoves(board, player)
         IN  IF Len(forcingMoves) = 0
             THEN [move |-> NoMove, checks |-> Tick(checks)]
             ELSE VCFLoop(board, player, depth, forcingMoves, 1, Tick(checks))

VCFLoop(board, player, depth, forcingMoves, k, checks) ==
    IF k > Len(forcingMoves) THEN [move |-> NoMove, checks |-> checks]
    ELSE
      LET r == RowOf(forcingMoves[k])
          c == ColOf(forcingMoves[k])
          nextBoard == makeMove(board, r, c, player)
          opponent  == Other(player)
          threat    == findWinningMove(nextBoard, player)
          blockedBoard == makeMove(nextBoard, threat[1], threat[2], opponent)
          result    == solveVCF(blockedBoard, player, depth - 1, checks)
      IN  IF checkWin(nextBoard, r, c) = player
          THEN [move |-> <<r, c>>, checks |-> checks]
          ELSE IF threat = NoMove
          THEN VCFLoop(board, player, depth, forcingMoves, k + 1, checks)
          ELSE IF checkWin(blockedBoard, threat[1], threat[2]) = opponent
          THEN VCFLoop(board, player, depth, forcingMoves, k + 1, checks)
          ELSE IF result.move # NoMove
          THEN [move |-> <<r, c>>, checks |-> result.checks]
          ELSE VCFLoop(board, player, depth, forcingMoves, k + 1, result.checks)

\* ------------------------------------------------------------------------
\* mcts-worker.ts: the search tree
\* ------------------------------------------------------------------------

\* The tree is an arena: nodes[1] is the root, `parent` is an index (0 for
\* null), `children` is the Map in insertion order as a sequence of
\* <<move index, node index>>.  wins is kept doubled (wins2 = 2 * wins) so
\* that the outcomes 0, 0.5 and 1 are the integers 0, 1 and 2.

createNode(board, move, parent, player) ==
    [ board        |-> copyBoard(board),
      move         |-> move,
      parent       |-> parent,
      children     |-> << >>,
      untriedMoves |-> getExpansionMoves(board, player),
      visits       |-> 0,
      wins2        |-> 0,
      player       |-> player ]

\* ucb1 with the win rate itself as exploitation term
UcbAtLeast_WinRate(a, b) ==
    \/ a.visits = 0
    \/ /\ b.visits > 0
       /\ a.visits <= b.visits
       /\ a.wins2 * b.visits >= b.wins2 * a.visits

\* ucb1(a) >= ucb1(b) whatever the rounding: a is unvisited (Infinity), or
\* a has no more visits and no higher win rate than b, so that neither
\* 1 - winRate nor the exploration term of a is smaller.
UcbAtLeast(a, b) ==
    \/ a.visits = 0
    \/ /\ b.visits > 0
       /\ a.visits <= b.visits
       /\ a.wins2 * b.visits <= b.wins2 * a.visits

\* ucb1(a) > ucb1(b) whatever the rounding (parentVisits >= 1)
UcbGreater(a, b, parentVisits) ==
    /\ b.visits > 0
    /\ \/ a.visits = 0
       \/ /\ UcbAtLeast(a, b)
          /\ \/ a.wins2 * b.visits < b.wins2 * a.visits
             \/ a.visits < b.visits /\ parentVisits > 1

\* selectChild: the children the loop can return.  The loop keeps the first
\* child of maximal value, so child k is ruled out when an earlier child is
\* at least as good or a later one is better.  Where the order of two values
\* depends on the floating-point value of the formula, both are kept.
selectChild(nodes, id) ==
    LET ch == nodes[id].children
    IN  { ch[k][2] : k \in
            { k \in 1 .. Len(ch) :
                /\ \A j \in 1 .. (k - 1) :
                      ~UcbAtLeast(nodes[ch[j][2]], nodes[ch[k][2]])
                /\ \A j \in (k + 1) .. Len(ch) :
                      ~UcbGreater(nodes[ch[j][2]], nodes[ch[k][2]],
                                  nodes[id].visits) } }

\* select: descend while the node has no untried move and has children
RECURSIVE select(_, _)

\* select descending whenever the node has children
select_WhileChildren(nodes, id) ==
    IF Len(nodes[id].children) > 0
    THEN UNION { select(nodes, c) : c \in selectChild(nodes, id) }
    ELSE { id }

select(nodes, id) ==
    IF Len(nodes[id].untriedMoves) = 0 /\ Len(nodes[id].children) > 0
    THEN UNION { select(nodes, c) : c \in selectChild(nodes, id) }
    ELSE { id }

\* A sequence without its k-th element: untriedMoves.splice(k, 1)
Splice(seq, k) == SubSeq(seq, 1, k - 1) \o SubSeq(seq, k + 1, Len(seq))

\* expand giving the child the player of its parent
expand_SamePlayer(nodes, id, k) ==
    IF Len(nodes[id].untriedMoves) = 0 THEN nodes
    ELSE
      LET moveIdx    == nodes[id].untriedMoves[k]
          nextPlayer == nodes[id].player
          newBoard   == makeMove(nodes[id].board, RowOf(moveIdx),
                                 ColOf(moveIdx), nextPlayer)
          child      == createNode(newBoard, fromIndex(moveIdx), id, nextPlayer)
      IN  Append([nodes EXCEPT
                    ![id].untriedMoves = Splice(@, k),
                    ![id].children = Append(@, << moveIdx, Len(nodes) + 1 >>)],
                 child)

\* expand leaving the move it takes in untriedMoves
expand_NoSplice(nodes, id, k) ==
    IF Len(nodes[id].untriedMoves) = 0 THEN nodes
    ELSE
      LET moveIdx    == nodes[id].untriedMoves[k]
          nextPlayer == Other(nodes[id].player)
          newBoard   == makeMove(nodes[id].board, RowOf(moveIdx),
                                 ColOf(moveIdx), nextPlayer)
          child      == createNode(newBoard, fromIndex(moveIdx), id, nextPlayer)
      IN  Append([nodes EXCEPT
                    ![id].children = Append(@, << moveIdx, Len(nodes) + 1 >>)],
                 child)

\* expand(node) taking the k-th untried move: the tree with the child
\* appended and registered.  Without untried moves the tree is unchanged.
expand(nodes, id, k) ==
    IF Len(nodes[id].untriedMoves) = 0 THEN nodes
    ELSE
      LET moveIdx    == nodes[id].untriedMoves[k]
          nextPlayer == Other(nodes[id].player)
          newBoard   == makeMove(nodes[id].board, RowOf(moveIdx),
                                 ColOf(moveIdx), nextPlayer)
          child      == createNode(newBoard, fromIndex(moveIdx), id, nextPlayer)
      IN  Append([nodes EXCEPT
                    ![id].untriedMoves = Splice(@, k),
                    ![id].children = Append(@, << moveIdx, Len(nodes) + 1 >>)],
                 child)

\* The node expand returns: the new child, or the node itself
Expanded(nodes, id) ==
    IF Len(nodes[id].untriedMoves) = 0 THEN id ELSE Len(nodes) + 1

MaxPlies == 225

\* simulate(board, player, aiPlayer): the doubled results the rollout can
\* return from ply i on (the random choice is the one of
\* getMoveWithInfluence).
RECURSIVE simulateFrom(_, _, _, _)
simulateFrom(currentBoard, currentPlayer, aiPlayer, i) ==
    IF i >= MaxPlies THEN { 1 }
    ELSE
      LET winMove   == findWinningMove(currentBoard, currentPlayer)
          blockMove == findWinningMove(currentBoard, Other(currentPlayer))
          moves ==
            IF winMove # NoMove THEN { toIndex(winMove[1], winMove[2]) }
            ELSE IF blockMove # NoMove
            THEN { toIndex(blockMove[1], blockMove[2]) }
            ELSE getMoveWithInfluence(currentBoard,
                                      getCandidateMoves(currentBoard))
      IN  UNION {
            IF moveIdx = -1 THEN { 1 }
            ELSE IF currentBoard[RowOf(moveIdx)][ColOf(moveIdx)] # 0 THEN { 1 }
            ELSE
              LET played == [currentBoard EXCEPT
                               ![RowOf(moveIdx)][ColOf(moveIdx)] = currentPlayer]
                  winner == checkWin(played, RowOf(moveIdx), ColOf(moveIdx))
              IN  IF winner # 0
                  THEN { IF winner = aiPlayer THEN 2 ELSE 0 }
                  ELSE simulateFrom(played, Other(currentPlayer), aiPlayer, i + 1)
            : moveIdx \in moves }

simulate(board, player, aiPlayer) ==
    simulateFrom(copyBoard(board), player, aiPlayer, 0)

\* The indices of the nodes from id up to the root
RECURSIVE PathToRoot(_, _)
PathToRoot(nodes, id) ==
    IF id = 0 THEN {} ELSE {id} \cup PathToRoot(nodes, nodes[id].parent)

\* backpropagate adding the result to every node of the path
backpropagate_SearcherOutcome(nodes, id, result2, aiPlayer) ==
    [ n \in 1 .. Len(nodes) |->
        IF n \in PathToRoot(nodes, id)
        THEN [nodes[n] EXCEPT !.visits = @ + 1, !.wins2 = @ + result2]
        ELSE nodes[n] ]

\* backpropagate stopping below the root
backpropagate_StopsBelowRoot(nodes, id, result2, aiPlayer) ==
    [ n \in 1 .. Len(nodes) |->
        IF n \in PathToRoot(nodes, id) /\ nodes[n].parent # 0
        THEN [nodes[n] EXCEPT
                !.visits = @ + 1,
                !.wins2  = @ + (IF nodes[n].player = aiPlayer
                                THEN result2 ELSE 2 - result2)]
        ELSE nodes[n] ]

\* backpropagate counting the visit at the given node only
backpropagate_LeafOnly(nodes, id, result2, aiPlayer) ==
    [ n \in 1 .. Len(nodes) |->
        IF n = id
        THEN [nodes[n] EXCEPT
                !.visits = @ + 1,
                !.wins2  = @ + (IF nodes[n].player = aiPlayer
                                THEN result2 ELSE 2 - result2)]
        ELSE nodes[n] ]

\* backpropagate(node, result, aiPlayer), result doubled
backpropagate(nodes, id, result2, aiPlayer) ==
    [ n \in 1 .. Len(nodes) |->
        IF n \in PathToRoot(nodes, id)
        THEN [nodes[n] EXCEPT
                !.visits = @ + 1,
                !.wins2  = @ + (IF nodes[n].player = aiPlayer
                                THEN result2 ELSE 2 - result2)]
        ELSE nodes[n] ]

\* The child of the root with the best win rate, the first one among equals
RobustChild_BestWinRate(nodes) ==
    LET ch == nodes[1].children
    IN  IF Len(ch) = 0 THEN 0
        ELSE ch[CHOOSE k \in 1 .. Len(ch) :
                  /\ \A j \in 1 .. Len(ch) :
                        nodes[ch[j][2]].wins2 * nodes[ch[k][2]].visits
                          <= nodes[ch[k][2]].wins2 * nodes[ch[j][2]].visits
                  /\ \A j \in 1 .. (k - 1) :
                        nodes[ch[j][2]].wins2 * nodes[ch[k][2]].visits
                          < nodes[ch[k][2]].wins2 * nodes[ch[j][2]].visits][2]

\* The robust child of the root: the first child, in insertion order, of
\* maximal visit count; 0 when the root has no child.
RobustChild(nodes) ==
    LET ch == nodes[1].children
    IN  IF Len(ch) = 0 THEN 0
        ELSE ch[CHOOSE k \in 1 .. Len(ch) :
                  /\ \A j \in 1 .. Len(ch) :
                        nodes[ch[j][2]].visits <= nodes[ch[k][2]].visits
                  /\ \A j \in 1 .. (k - 1) :
                        nodes[ch[j][2]].visits < nodes[ch[k][2]].visits][2]

\* ------------------------------------------------------------------------
\* Decision requests
\* ------------------------------------------------------------------------

\* The board with the stones S, a set of <<r, c, value>>
Put(S) ==
    [r \in Idx |-> [c \in Idx |->
        IF \E t \in S : t[1] = r /\ t[2] = c
        THEN (CHOOSE t \in S : t[1] = r /\ t[2] = c)[3]
        ELSE 0]]

\* n stones of `player` from `anchor` along directions[k]
Line(anchor, k, n, player) ==
    { << anchor[1] + j * directions[k][1],
         anchor[2] + j * directions[k][2], player >> : j \in 0 .. (n - 1) }

LineLengths == {0, 3, 4}

Anchors1 == { <<3, 3>>, <<0, 4>> }

Anchors2 == { <<7, 4>>, <<11, 4>> }

\* Boards on which a tactical step decides: each player has one line of
\* three or four stones, or none (player 1 in rows 0..6, player 2 in rows
\* 7..14).
LineBoards ==
    { Put(Line(a1, k1, n1, 1) \cup Line(a2, k2, n2, 2)) :
        << a1, k1, n1, a2, k2, n2 >> \in
          { t \in Anchors1 \X (1 .. 4) \X LineLengths
                  \X Anchors2 \X (1 .. 4) \X LineLengths :
              /\ t[3] + t[6] > 0
              /\ (t[3] = 0 => t[1] = <<3, 3>> /\ t[2] = 1)
              /\ (t[6] = 0 => t[4] = <<7, 4>> /\ t[5] = 1) } }

\* Boards of the first plies and boards with an open two
SmallBoards ==
    { createEmptyBoard,
      Put({ <<7, 7, 1>> }),
      Put({ <<7, 7, 1>>, <<8, 7, 2>> }),
      Put({ <<7, 7, 1>>, <<8, 8, 2>> }) }

\* A full board without five in a row: runs of two along rows and diagonals
Tile(r, c) == IF ((c + 2 * r) % 4) < 2 THEN 1 ELSE 2

FullBoard == [r \in Idx |-> [c \in Idx |-> Tile(r, c)]]

\* Nearly full boards, on which the decision reaches the tree search
HoleSets == { { <<2, 2>> }, { <<2, 2>>, <<11, 9>> } }

Holes(H) == [r \in Idx |-> [c \in Idx |-> IF <<r, c>> \in H THEN 0 ELSE Tile(r, c)]]

\* A board that is not an array of rows (board[r][c] throws a TypeError)
NullBoard == << >>

\* e.data of the messages the worker is sent.  iterations and aiPlayer 0
\* stand for a missing (falsy) field.
Requests ==
    { [board |-> b, iterations |-> 3000, aiPlayer |-> p] :
        b \in LineBoards \cup SmallBoards, p \in {1, 2} }
    \cup
    { [board |-> Put({ <<7, 4, q>>, <<7, 5, q>> }), iterations |-> 3000,
       aiPlayer |-> Other(q)] : q \in {1, 2} }
    \cup
    { [board |-> Holes(H), iterations |-> 1, aiPlayer |-> p] :
        H \in HoleSets, p \in {0, 1} }
    \cup
    { [board |-> Holes({ <<2, 2>> }), iterations |-> n, aiPlayer |-> 1] :
        n \in {0, 1001} }
    \cup
    { [board |-> FullBoard, iterations |-> 1, aiPlayer |-> 1],
      [board |-> NullBoard, iterations |-> 3000, aiPlayer |-> 2],
      [board |-> Put({ <<0, 0, 3>> } \cup Line(<<7, 4>>, 2, 4, 2)),
       iterations |-> 3000, aiPlayer |-> 1],
      [board |-> Put(Line(<<3, 3>>, 2, 4, 1)),
       iterations |-> 3000, aiPlayer |-> 3],
      [board |-> Put(Line(<<0, 0>>, 2, 4, 2) \cup Line(<<7, 4>>, 2, 4, 2)),
       iterations |-> 3000, aiPlayer |-> 1] }

MinIterations == 1000

DefaultIterations == 3000

DefaultAiPlayer == 2

\* ------------------------------------------------------------------------
\* The decision as a whole
\* ------------------------------------------------------------------------

\* The first move of a sequence of step results that is not null
RECURSIVE FirstMove(_)
FirstMove(steps) ==
    IF Len(steps) = 0 THEN NoMove
    ELSE IF Head(steps) # NoMove THEN Head(steps)
    ELSE FirstMove(Tail(steps))

\* The moves the tree search of findBestMove can return: the move of a
\* child of the root, which is one of the root's expansion moves (the
\* floor of 1000 iterations expands the root whenever it has one), else
\* the influence pick among the candidates, else the centre.
MctsMoves(board, aiPlayer) ==
    LET untriedMoves == getExpansionMoves(board, aiPlayer)
    IN  IF Len(untriedMoves) > 0
        THEN { fromIndex(m) : m \in Range(untriedMoves) }
        ELSE { IF fallbackIdx # -1 THEN fromIndex(fallbackIdx) ELSE <<7, 7>> :
                 fallbackIdx \in
                   getMoveWithInfluence(board, getCandidateMoves(board)) }

\* findBestMove as a whole: the values it can return for a board and a
\* searching player, over the deadlines of the two VCF searches and the
\* random choices of the tree search.
findBestMove(board, aiPlayer) ==
    LET opponent == Other(aiPlayer)
        instinct == FirstMove(<< checkOpeningBook(board),
                                 findWinningMove(board, aiPlayer),
                                 findWinningMove(board, opponent) >>)
        standard == FirstMove(<< findFour(board, opponent),
                                 findFour(board, aiPlayer),
                                 LET oppOpenThrees ==
                                       findOpenThree(board, opponent)
                                 IN  IF Len(oppOpenThrees) > 0
                                     THEN fromIndex(oppOpenThrees[1])
                                     ELSE NoMove >>)
    IN  IF instinct # NoMove THEN { instinct }
        ELSE UNION {
               LET myVCF == solveVCF(board, aiPlayer, VCF_MAX_DEPTH, c[1]).move
                   oppVCF == solveVCF(board, opponent, VCF_MAX_DEPTH, c[2]).move
               IN  IF myVCF # NoMove THEN { myVCF }
                   ELSE IF oppVCF # NoMove THEN { oppVCF }
                   ELSE IF standard # NoMove THEN { standard }
                   ELSE MctsMoves(board, aiPlayer)
               : c \in Deadlines \X Deadlines }

\* self.onmessage as a whole: the moves the worker can post for a request
WorkerReply(req) ==
    IF req.board = NullBoard THEN { NoMove }
    ELSE findBestMove(req.board,
                      IF req.aiPlayer = 0 THEN DefaultAiPlayer
                      ELSE req.aiPlayer)

\* ------------------------------------------------------------------------
\* The worker: self.onmessage and findBestMove
\* ------------------------------------------------------------------------

VARIABLES
    pc,          \* the worker's position in onmessage / findBestMove
    request,     \* e.data of the message being handled
    board,       \* findBestMove's parameters
    iterations,
    aiPlayer,
    phases,      \* the steps of findBestMove entered for this message
    bestMove,    \* findBestMove's return value
    outbox,      \* the messages posted for this message
    nodes,       \* the search tree
    i,           \* the loop counter of the search
    heap,        \* makeMove on arrays: the row arrays, by address
    call,        \* makeMove on arrays: the arguments and the outcome
    game,        \* the host: the state of the Game component
    worker,      \* the host: its worker and the handler's closure
    frames       \* solveVCF step by step: the call stack

hostVars == << game, worker >>

heapVars == << heap, call >>

vcfVars == << frames >>

workerVars == << pc, request, board, iterations, aiPlayer, phases, bestMove,
                 outbox, nodes, i >>

vars == << pc, request, board, iterations, aiPlayer, phases, bestMove,
           outbox, nodes, i, heap, call, game, worker, frames >>

NoRequest == [board |-> NullBoard, iterations |-> 0, aiPlayer |-> 0]

Unused == << >>

WorkerInit ==
    /\ pc = "idle"
    /\ request = NoRequest
    /\ board = NullBoard
    /\ iterations = 0
    /\ aiPlayer = 0
    /\ phases = {}
    /\ bestMove = NoMove
    /\ outbox = << >>
    /\ nodes = << >>
    /\ i = 0

Init ==
    /\ WorkerInit
    /\ heap = Unused /\ call = Unused /\ game = Unused /\ worker = Unused
    /\ frames = Unused

\* self.onmessage: destructure e.data, enter the try block and call
\* findBestMove(board, iterations || 3000, aiPlayer || 2)
OnMessage ==
    /\ pc = "idle"
    /\ \E req \in Requests :
          /\ request' = req
          /\ board' = req.board
          /\ iterations' = IF req.iterations = 0 THEN DefaultIterations
                           ELSE req.iterations
          /\ aiPlayer' = IF req.aiPlayer = 0 THEN DefaultAiPlayer
                         ELSE req.aiPlayer
    /\ pc' = "book"
    /\ phases' = {}
    /\ bestMove' = NoMove
    /\ outbox' = << >>
    /\ nodes' = << >>
    /\ i' = 0
    /\ UNCHANGED << heapVars, hostVars, vcfVars >>

\* One step of the priority chain: return `move` when it is not null, else
\* go on with the step `next`.
Step(name, move, next) ==
    /\ pc = name
    /\ phases' = phases \cup {name}
    /\ IF move # NoMove
       THEN bestMove' = move /\ pc' = "return"
       ELSE bestMove' = bestMove /\ pc' = next
    /\ UNCHANGED << request, board, iterations, aiPlayer, outbox, nodes, i >>
    /\ UNCHANGED << heapVars, hostVars, vcfVars >>

\* 0. opening book.  The first read of board[r][c] throws on a board that
\* is not an array of rows; the catch block takes over.
OpeningBook ==
    IF board = NullBoard
    THEN /\ pc = "book"
         /\ pc' = "catch"
         /\ phases' = phases \cup {"book"}
         /\ UNCHANGED << request, board, iterations, aiPlayer, bestMove,
                         outbox, nodes, i >>
         /\ UNCHANGED << heapVars, hostVars, vcfVars >>
    ELSE Step("book", checkOpeningBook(board), "win")

\* 1. instinct layer
ImmediateWin == Step("win", findWinningMove(board, aiPlayer), "block")

\* The block step looking for the searching player's own five
BlockOpponentWin_OwnPlayer ==
    Step("block", findWinningMove(board, aiPlayer), "myVCF")

BlockOpponentWin ==
    Step("block", findWinningMove(board, Other(aiPlayer)), "myVCF")

\* 2. VCF solver, for us and then for the opponent, each against its own
\* deadline
MyVCF ==
    \E checks \in Deadlines :
       Step("myVCF", solveVCF(board, aiPlayer, VCF_MAX_DEPTH, checks).move,
            "oppVCF")

OppVCF ==
    \E checks \in Deadlines :
       Step("oppVCF",
            solveVCF(board, Other(aiPlayer), VCF_MAX_DEPTH, checks).move,
            "oppFour")

\* standard instincts
OppFour == Step("oppFour", findFour(board, Other(aiPlayer)), "myFour")

MyFour == Step("myFour", findFour(board, aiPlayer), "openThree")

OppOpenThree ==
    Step("openThree",
         LET oppOpenThrees == findOpenThree(board, Other(aiPlayer))
         IN  IF Len(oppOpenThrees) > 0 THEN fromIndex(oppOpenThrees[1])
             ELSE NoMove,
         "mcts")

\* The start of the tree search without the floor of 1000 iterations
MctsStart_NoFloor ==
    /\ pc = "mcts"
    /\ phases' = phases \cup {"mcts"}
    /\ nodes' = << createNode(board, NoMove, 0, aiPlayer) >>
    /\ iterations' = iterations
    /\ i' = 0
    /\ pc' = "loop"
    /\ UNCHANGED << request, board, aiPlayer, bestMove, outbox >>
    /\ UNCHANGED << heapVars, hostVars, vcfVars >>

\* 3. MCTS layer: the root and the iteration budget
MctsStart ==
    /\ pc = "mcts"
    /\ phases' = phases \cup {"mcts"}
    /\ nodes' = << createNode(board, NoMove, 0, aiPlayer) >>
    /\ iterations' = IF iterations > MinIterations THEN iterations
                     ELSE MinIterations
    /\ i' = 0
    /\ pc' = "loop"
    /\ UNCHANGED << request, board, aiPlayer, bestMove, outbox >>
    /\ UNCHANGED << heapVars, hostVars, vcfVars >>

\* One iteration of the loop: select, then either backpropagate the win of
\* a node whose move completed five, or expand, simulate and backpropagate.
MctsIterate ==
    /\ pc = "loop"
    /\ i < iterations
    /\ \E node \in select(nodes, 1) :
         LET winner ==
               IF nodes[node].move # NoMove
               THEN checkWin(nodes[node].board, nodes[node].move[1],
                             nodes[node].move[2])
               ELSE 0
         IN  IF winner # 0
             THEN nodes' = backpropagate(nodes, node,
                                         IF winner = aiPlayer THEN 2 ELSE 0,
                                         aiPlayer)
             ELSE \E k \in 1 .. (IF Len(nodes[node].untriedMoves) = 0 THEN 1
                                 ELSE Len(nodes[node].untriedMoves)) :
                    LET grown    == expand(nodes, node, k)
                        expanded == Expanded(nodes, node)
                    IN  \E result2 \in
                            simulate(grown[expanded].board,
                                     IF grown[expanded].player = aiPlayer
                                     THEN Other(aiPlayer) ELSE aiPlayer,
                                     aiPlayer) :
                          nodes' = backpropagate(grown, expanded, result2,
                                                 aiPlayer)
    /\ i' = i + 1
    /\ UNCHANGED << pc, request, board, iterations, aiPlayer, phases,
                    bestMove, outbox >>
    /\ UNCHANGED << heapVars, hostVars, vcfVars >>

\* After the loop: the robust child's move, else the influence pick among
\* the candidates, else the centre.
MctsDecide ==
    /\ pc = "loop"
    /\ i >= iterations
    /\ IF RobustChild(nodes) # 0
       THEN /\ bestMove' = nodes[RobustChild(nodes)].move
            /\ phases' = phases \cup {"robust"}
       ELSE \E fallbackIdx \in
                getMoveWithInfluence(board, getCandidateMoves(board)) :
              IF fallbackIdx # -1
              THEN /\ bestMove' = fromIndex(fallbackIdx)
                   /\ phases' = phases \cup {"fallback"}
              ELSE /\ bestMove' = <<7, 7>>
                   /\ phases' = phases \cup {"centre"}
    /\ pc' = "return"
    /\ UNCHANGED << request, board, iterations, aiPlayer, outbox, nodes, i >>
    /\ UNCHANGED << heapVars, hostVars, vcfVars >>

\* self.postMessage({ move: bestMove }) at the end of the try block
PostMove ==
    /\ pc = "return"
    /\ outbox' = Append(outbox, [move |-> bestMove])
    /\ pc' = "done"
    /\ UNCHANGED << request, board, iterations, aiPlayer, phases, bestMove,
                    nodes, i >>
    /\ UNCHANGED << heapVars, hostVars, vcfVars >>

\* A catch block that only logs the error
Catch_Silent ==
    /\ pc = "catch"
    /\ phases' = phases \cup {"catch"}
    /\ pc' = "done"
    /\ UNCHANGED << request, board, iterations, aiPlayer, bestMove, outbox,
                    nodes, i >>
    /\ UNCHANGED << heapVars, hostVars, vcfVars >>

\* the catch block: self.postMessage({ move: null })
Catch ==
    /\ pc = "catch"
    /\ outbox' = Append(outbox, [move |-> NoMove])
    /\ phases' = phases \cup {"catch"}
    /\ pc' = "done"
    /\ UNCHANGED << request, board, iterations, aiPlayer, bestMove, nodes, i >>
    /\ UNCHANGED << heapVars, hostVars, vcfVars >>

\* The handler returns; its locals are gone and the worker waits for the
\* next message.
Done ==
    /\ pc = "done"
    /\ pc' = "idle"
    /\ request' = NoRequest
    /\ board' = NullBoard
    /\ iterations' = 0
    /\ aiPlayer' = 0
    /\ phases' = {}
    /\ bestMove' = NoMove
    /\ outbox' = << >>
    /\ nodes' = << >>
    /\ i' = 0
    /\ UNCHANGED << heapVars, hostVars, vcfVars >>

Next ==
    \/ OnMessage
    \/ OpeningBook
    \/ ImmediateWin
    \/ BlockOpponentWin
    \/ MyVCF
    \/ OppVCF
    \/ OppFour
    \/ MyFour
    \/ OppOpenThree
    \/ MctsStart
    \/ MctsIterate
    \/ MctsDecide
    \/ PostMove
    \/ Catch
    \/ Done

Spec == Init /\ [][Next]_vars

\* ------------------------------------------------------------------------
\* makeMove on JavaScript arrays (specification SpecMakeMove)
\* ------------------------------------------------------------------------

\* A board is an array of references to row arrays.  `heap` maps an address
\* to a row array, a function from the row's keys to its values; a board is
\* a function from 0..14 to addresses.  A call takes the initial board or
\* the board the previous call returned.

MaxCalls == 2

Coordinates == { -1, 0, 7, 15 }

InitialBoards == { createEmptyBoard, Put({ <<7, 7, 1>>, <<0, 0, 2>> }) }

NoBoard == << >>

\* The rows a board refers to, by value
Deref(h, b) == [r \in DOMAIN b |-> h[b[r]]]

\* A 15x15 grid of values as a grid of row arrays
AsRows(grid) == [r \in Idx |-> [c \in Idx |-> grid[r][c]]]

\* The 15x15 cells of a board, by value
Cells(h, b) == [r \in Idx |-> [c \in Idx |-> h[b[r]][c]]]

\* [...row]: a new array with the elements 0 .. length-1 of row
Spread(rowArray) ==
    LET length == IF \E k \in DOMAIN rowArray : k >= 0
                  THEN 1 + CHOOSE k \in DOMAIN rowArray :
                             k >= 0 /\ \A j \in DOMAIN rowArray : j <= k
                  ELSE 0
    IN  [k \in 0 .. (length - 1) |-> rowArray[k]]

\* A copy that shares the row arrays: [...board]
copyBoardArrays_Shallow(h, b) == [heap |-> h, board |-> b]

\* copyBoard on arrays: board.map(row => [...row]) allocates a new row
\* array for every row
copyBoardArrays(h, b) ==
    [ heap  |-> h \o [k \in 1 .. BOARD_SIZE |-> Spread(h[b[k - 1]])],
      board |-> [r \in Idx |-> Len(h) + 1 + r] ]

\* rowArray[col] = value
Store(rowArray, col, value) ==
    [k \in DOMAIN rowArray \cup {col} |->
        IF k = col THEN value ELSE rowArray[k]]

\* makeMove on arrays.  newBoard[row] is undefined for a row outside
\* 0..14, and the assignment to undefined[col] throws a TypeError.
makeMoveArrays(h, b, row, col, player) ==
    LET copied == copyBoardArrays(h, b)
    IN  IF row \notin Idx
        THEN [heap |-> copied.heap, result |-> NoBoard, threw |-> TRUE]
        ELSE [heap   |-> [copied.heap EXCEPT
                            ![copied.board[row]] = Store(@, col, player)],
              result |-> copied.board,
              threw  |-> FALSE]

MakeMoveInit ==
    /\ \E b \in InitialBoards :
         heap = [k \in 1 .. BOARD_SIZE |-> AsRows(b)[k - 1]]
    /\ call = [ n |-> 0, input |-> [r \in Idx |-> r + 1], before |-> NoBoard,
                row |-> 0, col |-> 0, player |-> 0,
                result |-> NoBoard, threw |-> FALSE ]
    /\ pc = Unused /\ request = Unused /\ board = Unused
    /\ iterations = Unused /\ aiPlayer = Unused /\ phases = Unused
    /\ bestMove = Unused /\ outbox = Unused /\ nodes = Unused /\ i = Unused
    /\ game = Unused /\ worker = Unused /\ frames = Unused

\* One call makeMove(input, row, col, player)
CallMakeMove ==
    /\ call.n < MaxCalls
    /\ \E input \in { [r \in Idx |-> r + 1] } \cup
                    (IF call.result = NoBoard THEN {} ELSE { call.result }) :
       \E row \in Coordinates : \E col \in Coordinates : \E player \in {1, 2} :
          LET out == makeMoveArrays(heap, input, row, col, player)
          IN  /\ heap' = out.heap
              /\ call' = [ n |-> call.n + 1, input |-> input,
                           before |-> Deref(heap, input),
                           row |-> row, col |-> col, player |-> player,
                           result |-> out.result, threw |-> out.threw ]
    /\ UNCHANGED << workerVars, hostVars, vcfVars >>

MakeMoveNext == CallMakeMove

SpecMakeMove == MakeMoveInit /\ [][MakeMoveNext]_vars

\* ------------------------------------------------------------------------
\* The host: the Game component and its worker
\* ------------------------------------------------------------------------

\* Moves of one game the model follows
MaxMoves == 3

\* The cells the human clicks
ClickCells == { <<7, 7>>, <<8, 7>>, <<8, 8>>, <<0, 0>> }

NoNumbers == [r \in Idx |-> [c \in Idx |-> 0]]

\* What the worker's onmessage handler closes over: the values of the
\* render in which the worker was created
Closure(g) ==
    [ board       |-> g.board,
      aiPlayer    |-> g.aiPlayer,
      moveCount   |-> g.moveCount,
      moveNumbers |-> g.moveNumbers ]

\* The effects with a worker that is created once and never terminated
Effects_WorkerKept(g, boardChanged, w) ==
    LET aiTurn  == /\ g.gameMode = "ai"
                   /\ g.currentPlayer = g.aiPlayer
                   /\ ~g.gameOver
                   /\ ~g.isAiThinking
    IN  IF aiTurn
        THEN [ game   |-> [g EXCEPT !.isAiThinking = TRUE],
               worker |-> [w EXCEPT !.inflight =
                             [ board      |-> g.board,
                               iterations |-> DefaultIterations,
                               aiPlayer   |-> g.aiPlayer ]] ]
        ELSE [ game |-> g, worker |-> w ]

\* The two effects that follow a render with state g.  The first, with
\* dependency [board], terminates the worker and creates a new one whose
\* handler closes over this render; a request in flight to the old worker
\* is lost (`lost` records that this has happened).  The second posts a
\* request when it is the AI's turn.
Effects(g, boardChanged, w) ==
    LET created == IF boardChanged
                   THEN [closure  |-> Closure(g),
                         inflight |-> NoRequest,
                         lost     |-> w.lost \/ w.inflight # NoRequest]
                   ELSE w
        aiTurn  == /\ g.gameMode = "ai"
                   /\ g.currentPlayer = g.aiPlayer
                   /\ ~g.gameOver
                   /\ ~g.isAiThinking
    IN  IF aiTurn
        THEN [ game   |-> [g EXCEPT !.isAiThinking = TRUE],
               worker |-> [created EXCEPT !.inflight =
                             [ board      |-> g.board,
                               iterations |-> DefaultIterations,
                               aiPlayer   |-> g.aiPlayer ]] ]
        ELSE [ game |-> g, worker |-> created ]

\* A game of the two-player mode after eight clicks: each player has four
\* stones in a row and the next click on (7,7) or (8,7) completes five
LateStones ==
    << <<7, 3>>, <<8, 3>>, <<7, 4>>, <<8, 4>>,
       <<7, 5>>, <<8, 5>>, <<7, 6>>, <<8, 6>> >>

LateGame ==
    [ board         |-> [r \in Idx |-> [c \in Idx |->
                          IF \E k \in 1 .. Len(LateStones) :
                                LateStones[k] = <<r, c>>
                          THEN IF r = 7 THEN 1 ELSE 2
                          ELSE 0]],
      currentPlayer |-> 1,
      gameOver      |-> FALSE,
      winner        |-> 0,
      isAiThinking  |-> FALSE,
      gameMode      |-> "human",
      aiPlayer      |-> 2,
      moveNumbers   |-> [r \in Idx |-> [c \in Idx |->
                          IF \E k \in 1 .. Len(LateStones) :
                                LateStones[k] = <<r, c>>
                          THEN CHOOSE k \in 1 .. Len(LateStones) :
                                 LateStones[k] = <<r, c>>
                          ELSE 0]],
      moveCount     |-> Len(LateStones) ]

\* Moves the model follows from that game on
MaxLateMoves == 2

\* The model follows the first MaxMoves moves of a game, and the moves
\* that follow the eight of LateGame
MovesLeft(g) ==
    \/ g.moveCount < MaxMoves
    \/ /\ g.moveCount >= Len(LateStones)
       /\ g.moveCount < Len(LateStones) + MaxLateMoves

\* The state after mounting the component
HostInit ==
    /\ game = [ board         |-> createEmptyBoard,
                currentPlayer |-> 1,
                gameOver      |-> FALSE,
                winner        |-> 0,
                isAiThinking  |-> FALSE,
                gameMode      |-> "ai",
                aiPlayer      |-> 2,
                moveNumbers   |-> NoNumbers,
                moveCount     |-> 0 ]
    /\ worker = [ closure  |-> Closure(game), inflight |-> NoRequest,
                 lost     |-> FALSE ]
    /\ pc = Unused /\ request = Unused /\ board = Unused
    /\ iterations = Unused /\ aiPlayer = Unused /\ phases = Unused
    /\ bestMove = Unused /\ outbox = Unused /\ nodes = Unused /\ i = Unused
    /\ heap = Unused /\ call = Unused /\ frames = Unused

\* The state updates both handlers make after placing a stone: the board,
\* the move numbers, then the win, the draw or the change of turn
Placed(g, from, row, col, player, next) ==
    LET newBoard     == makeMove(from.board, row, col, player)
        newMoveCount == from.moveCount + 1
        moved  == [g EXCEPT !.board = newBoard,
                            !.moveCount = newMoveCount,
                            !.moveNumbers =
                               [from.moveNumbers EXCEPT
                                  ![row][col] = newMoveCount]]
        result == checkWin(newBoard, row, col)
    IN  IF result # 0
        THEN [moved EXCEPT !.winner = result, !.gameOver = TRUE]
        ELSE IF isBoardFull(newBoard)
        THEN [moved EXCEPT !.gameOver = TRUE]
        ELSE [moved EXCEPT !.currentPlayer = next]

\* handleCellClick with the test of the cell as its only reason to return
HandleCellClick_OnlyCellTest ==
    /\ MovesLeft(game)
    /\ \E cell \in ClickCells :
         LET row == cell[1]
             col == cell[2]
         IN  IF ~isValidMove(game.board, row, col)
             THEN UNCHANGED << game, worker >>
             ELSE LET after == Effects(
                                 Placed(game, game, row, col,
                                        game.currentPlayer,
                                        Other(game.currentPlayer)),
                                 TRUE, worker)
                  IN  game' = after.game /\ worker' = after.worker
    /\ UNCHANGED << workerVars, heapVars, vcfVars >>

\* handleCellClick(row, col)
HandleCellClick ==
    /\ MovesLeft(game)
    /\ \E cell \in ClickCells :
         LET row == cell[1]
             col == cell[2]
         IN  IF \/ game.gameOver
                \/ ~isValidMove(game.board, row, col)
                \/ game.isAiThinking
                \/ (game.gameMode = "ai" /\ game.currentPlayer = game.aiPlayer)
             THEN UNCHANGED << game, worker >>
             ELSE LET after == Effects(
                                 Placed(game, game, row, col,
                                        game.currentPlayer,
                                        Other(game.currentPlayer)),
                                 TRUE, worker)
                  IN  game' = after.game /\ worker' = after.worker
    /\ UNCHANGED << workerVars, heapVars, vcfVars >>

\* The worker answers the request in flight and its onmessage handler runs
\* with the values it closed over.
WorkerResponse ==
    /\ worker.inflight # NoRequest
    /\ MovesLeft(game)
    /\ \E move \in WorkerReply(worker.inflight) :
         LET closure  == worker.closure
             answered == [worker EXCEPT !.inflight = NoRequest]
             after ==
               IF move = NoMove
               THEN Effects([game EXCEPT !.isAiThinking = FALSE],
                            FALSE, answered)
               ELSE Effects(
                      [Placed(game, closure, move[1], move[2],
                              closure.aiPlayer, Other(closure.aiPlayer))
                         EXCEPT !.isAiThinking = FALSE],
                      TRUE, answered)
         IN  game' = after.game /\ worker' = after.worker
    /\ UNCHANGED << workerVars, heapVars, vcfVars >>

\* The state resetGame sets
Reset(g) ==
    [g EXCEPT !.board = createEmptyBoard,
              !.currentPlayer = 1,
              !.gameOver = FALSE,
              !.winner = 0,
              !.isAiThinking = FALSE,
              !.moveCount = 0,
              !.moveNumbers = NoNumbers]

\* resetGame()
ResetGame ==
    /\ LET after == Effects(Reset(game), TRUE, worker)
       IN  game' = after.game /\ worker' = after.worker
    /\ UNCHANGED << workerVars, heapVars, vcfVars >>

\* toggleAiPlayer()
ToggleAiPlayer ==
    /\ LET after == Effects(
                      Reset([game EXCEPT !.aiPlayer = Other(game.aiPlayer)]),
                      TRUE, worker)
       IN  game' = after.game /\ worker' = after.worker
    /\ UNCHANGED << workerVars, heapVars, vcfVars >>

\* toggleMode()
ToggleMode ==
    /\ LET after == Effects(
                      Reset([game EXCEPT !.gameMode =
                               IF game.gameMode = "ai" THEN "human"
                               ELSE "ai"]),
                      TRUE, worker)
       IN  game' = after.game /\ worker' = after.worker
    /\ UNCHANGED << workerVars, heapVars, vcfVars >>

HostNext ==
    \/ HandleCellClick
    \/ WorkerResponse
    \/ ResetGame
    \/ ToggleAiPlayer
    \/ ToggleMode

SpecHost == HostInit /\ [][HostNext]_vars

\* The component late in a game of the two-player mode
HostLateInit ==
    /\ game = LateGame
    /\ worker = [ closure  |-> Closure(game), inflight |-> NoRequest,
                 lost     |-> FALSE ]
    /\ pc = Unused /\ request = Unused /\ board = Unused
    /\ iterations = Unused /\ aiPlayer = Unused /\ phases = Unused
    /\ bestMove = Unused /\ outbox = Unused /\ nodes = Unused /\ i = Unused
    /\ heap = Unused /\ call = Unused /\ frames = Unused

SpecHostLate == HostLateInit /\ [][HostNext]_vars

\* ------------------------------------------------------------------------
\* The pure functions of gameLogic, patterns and the move generators,
\* called on boards drawn from a set
\* ------------------------------------------------------------------------

\* The boards the functions are called on: lines of three to six stones in
\* every direction, at the edges and in the open, broken lines, crossings,
\* positions with stones of both players, and boards without empty cells.
PatternBoards ==
    { createEmptyBoard,
      FullBoard,
      Holes({ <<2, 2>> }),
      Holes({ <<2, 2>>, <<11, 9>> }),
      Put({ <<7, 7, 1>> }),
      Put({ <<0, 0, 2>> }),
      Put({ <<14, 14, 1>>, <<0, 14, 2>> }),
      Put(Line(<<7, 4>>, 2, 4, 1)),
      Put(Line(<<0, 0>>, 2, 5, 1) \cup Line(<<5, 5>>, 1, 3, 2)),
      Put(Line(<<4, 4>>, 3, 6, 2) \cup Line(<<0, 9>>, 1, 5, 1)),
      Put(Line(<<10, 4>>, 4, 5, 1) \cup Line(<<10, 5>>, 4, 4, 2)),
      Put({ <<7, 3, 1>>, <<7, 4, 1>>, <<7, 6, 1>>, <<7, 7, 1>> }),
      Put({ <<7, 6, 1>>, <<7, 8, 1>>, <<6, 7, 1>>, <<8, 7, 1>> }),
      Put({ <<7, 3, 2>>, <<7, 4, 1>>, <<7, 5, 1>> }),
      Put(Line(<<0, 14>>, 4, 4, 2)),
      Put(Line(<<0, 0>>, 1, 4, 1)),
      Put(Line(<<7, 4>>, 2, 3, 1) \cup Line(<<4, 7>>, 1, 3, 1)),
      Put(Line(<<7, 4>>, 2, 3, 1) \cup Line(<<4, 7>>, 1, 3, 2)),
      Put(Line(<<3, 3>>, 2, 4, 1) \cup Line(<<9, 3>>, 3, 4, 2)),
      Put(Line(<<3, 3>>, 3, 3, 1) \cup Line(<<9, 3>>, 2, 4, 2)),
      Put(Line(<<3, 3>>, 2, 3, 1) \cup Line(<<9, 9>>, 1, 3, 2)),
      Put(Line(<<2, 2>>, 2, 2, 1) \cup Line(<<11, 6>>, 4, 2, 2)),
      Put(Line(<<12, 0>>, 2, 3, 2) \cup Line(<<14, 10>>, 2, 4, 1)),
      Put({ <<6, 6, 1>>, <<6, 7, 1>>, <<6, 9, 1>>, <<7, 8, 2>>,
            <<8, 8, 2>>, <<9, 8, 2>>, <<5, 8, 2>> }) }

NoCall ==
    [ op |-> "none", row |-> 0, col |-> 0, k |-> 0, player |-> 0,
      before |-> NoBoard, result |-> NoMove, again |-> NoMove, n |-> 0 ]

PatternsInit ==
    /\ board \in PatternBoards
    /\ call = NoCall
    /\ pc = Unused /\ request = Unused
    /\ iterations = Unused /\ aiPlayer = Unused /\ phases = Unused
    /\ bestMove = Unused /\ outbox = Unused /\ nodes = Unused /\ i = Unused
    /\ heap = Unused /\ game = Unused /\ worker = Unused /\ frames = Unused

PatternsFrame ==
    UNCHANGED << pc, request, iterations, aiPlayer, phases, bestMove, outbox,
                 nodes, i, heap, game, worker, frames >>

\* checkWin(board, row, col)
CallCheckWin ==
    /\ call.op = "none"
    /\ \E row \in Idx : \E col \in Idx :
         call' = [NoCall EXCEPT !.op = "checkWin", !.row = row, !.col = col,
                                !.result = checkWin(board, row, col), !.n = 1]
    /\ UNCHANGED board
    /\ PatternsFrame

\* A detectPattern that places the hypothetical stone on the board it is
\* given and leaves it there
CallDetectPattern_PlacesStone ==
    /\ call.op = "none"
    /\ \E row \in Idx : \E col \in Idx : \E k \in 1 .. 4 : \E player \in {1, 2} :
         /\ call' = [NoCall EXCEPT
                       !.op = "detectPattern", !.row = row, !.col = col,
                       !.k = k, !.player = player, !.before = board,
                       !.result = detectPattern(board, row, col,
                                                directions[k][1],
                                                directions[k][2], player),
                       !.n = 1]
         /\ board' = makeMove(board, row, col, player)
    /\ PatternsFrame

\* detectPattern(board, row, col, dr, dc, player) with [dr, dc] the k-th of
\* the directions.  The function only reads the board.
CallDetectPattern ==
    /\ call.op = "none"
    /\ \E row \in Idx : \E col \in Idx : \E k \in 1 .. 4 : \E player \in {1, 2} :
         call' = [NoCall EXCEPT
                    !.op = "detectPattern", !.row = row, !.col = col,
                    !.k = k, !.player = player, !.before = board,
                    !.result = detectPattern(board, row, col,
                                             directions[k][1],
                                             directions[k][2], player),
                    !.n = 1]
    /\ UNCHANGED board
    /\ PatternsFrame

\* The same call once more, on the board as the first call left it
CallDetectPatternAgain ==
    /\ call.op = "detectPattern"
    /\ call.n = 1
    /\ call' = [call EXCEPT
                  !.again = detectPattern(board, call.row, call.col,
                                          directions[call.k][1],
                                          directions[call.k][2], call.player),
                  !.n = 2]
    /\ UNCHANGED board
    /\ PatternsFrame

\* findWinningMove(board, player)
CallFindWinningMove ==
    /\ call.op = "none"
    /\ \E player \in {1, 2} :
         call' = [NoCall EXCEPT !.op = "findWinningMove", !.player = player,
                                !.result = findWinningMove(board, player),
                                !.n = 1]
    /\ UNCHANGED board
    /\ PatternsFrame

\* findFour(board, player)
CallFindFour ==
    /\ call.op = "none"
    /\ \E player \in {1, 2} :
         call' = [NoCall EXCEPT !.op = "findFour", !.player = player,
                                !.result = findFour(board, player), !.n = 1]
    /\ UNCHANGED board
    /\ PatternsFrame

\* findOpenThree(board, player)
CallFindOpenThree ==
    /\ call.op = "none"
    /\ \E player \in {1, 2} :
         call' = [NoCall EXCEPT !.op = "findOpenThree", !.player = player,
                                !.result = findOpenThree(board, player),
                                !.n = 1]
    /\ UNCHANGED board
    /\ PatternsFrame

\* getForcingMoves(board, player)
CallGetForcingMoves ==
    /\ call.op = "none"
    /\ \E player \in {1, 2} :
         call' = [NoCall EXCEPT !.op = "getForcingMoves", !.player = player,
                                !.result = getForcingMoves(board, player),
                                !.n = 1]
    /\ UNCHANGED board
    /\ PatternsFrame

\* getCandidateMoves(board)
CallGetCandidateMoves ==
    /\ call.op = "none"
    /\ call' = [NoCall EXCEPT !.op = "getCandidateMoves",
                              !.result = getCandidateMoves(board), !.n = 1]
    /\ UNCHANGED board
    /\ PatternsFrame

\* getExpansionMoves(board, player)
CallGetExpansionMoves ==
    /\ call.op = "none"
    /\ \E player \in {1, 2} :
         call' = [NoCall EXCEPT !.op = "getExpansionMoves",
                                !.player = player,
                                !.result = getExpansionMoves(board, player),
                                !.n = 1]
    /\ UNCHANGED board
    /\ PatternsFrame

\* The caller drops the returned value
Return ==
    /\ call.op # "none"
    /\ call' = NoCall
    /\ UNCHANGED board
    /\ PatternsFrame

PatternsNext ==
    \/ CallCheckWin
    \/ CallDetectPattern
    \/ CallDetectPatternAgain
    \/ CallFindWinningMove
    \/ CallFindFour
    \/ CallFindOpenThree
    \/ CallGetForcingMoves
    \/ CallGetCandidateMoves
    \/ CallGetExpansionMoves
    \/ Return

SpecPatterns == PatternsInit /\ [][PatternsNext]_vars

\* ------------------------------------------------------------------------
\* solveVCF step by step: the recursion as a stack of calls
\* ------------------------------------------------------------------------

MaxDepth == 3

\* The depths solveVCF is called with: small ones, and the depth
\* findBestMove passes
VcfDepths == (0 .. MaxDepth) \cup {VCF_MAX_DEPTH}

\* Player 1 has a closed three in row 7 and two stones in column 7: the
\* four at (7,7) forces the block at (7,8) and leaves a three in column 7
FourThreeBoard ==
    Put({ <<7, 3, 2>>, <<7, 4, 1>>, <<7, 5, 1>>, <<7, 6, 1>>,
          <<5, 7, 1>>, <<6, 7, 1>> })

\* The same with three stones of player 2 in column 8 under the block
CounterBoard ==
    Put({ <<7, 3, 2>>, <<7, 4, 1>>, <<7, 5, 1>>, <<7, 6, 1>>,
          <<5, 7, 1>>, <<6, 7, 1>>,
          <<8, 8, 2>>, <<9, 8, 2>>, <<10, 8, 2>> })

\* The boards solveVCF is called on
VcfBoards ==
    { createEmptyBoard,
      FourThreeBoard,
      CounterBoard,
      \* an open three of player 1 and a closed four of player 2
      Put(Line(<<3, 3>>, 1, 3, 1) \cup Line(<<9, 0>>, 1, 4, 2)),
      \* an open four of player 1
      Put(Line(<<3, 3>>, 1, 4, 1)),
      \* four stones of player 1 closed at both ends
      Put(Line(<<3, 3>>, 1, 4, 1) \cup { <<3, 2, 2>>, <<3, 7, 2>> }),
      \* a forced block that completes five for the blocker
      Put({ <<7, 3, 2>>, <<7, 4, 1>>, <<7, 5, 1>>, <<7, 6, 1>>,
            <<5, 7, 1>>, <<6, 7, 1>> }
          \cup Line(<<7, 9>>, 1, 4, 2)) }

NoVcfCall == [ player |-> 0, depth |-> 0, checks |-> 0, before |-> NoBoard,
               result |-> NoMove, entries |-> 0 ]

\* One activation of solveVCF: its board and depth arguments, the
\* forcingMoves it computed, the position k of its for loop, where it
\* stands, and the value its recursive call returned
Frame(b, depth) ==
    [ board |-> b, depth |-> depth, forcingMoves |-> << >>, k |-> 0,
      stage |-> "entry", ret |-> NoMove ]

VcfInit ==
    /\ board \in VcfBoards
    /\ pc = "idle"
    /\ call = NoVcfCall
    /\ frames = << >>
    /\ request = Unused /\ iterations = Unused /\ aiPlayer = Unused
    /\ phases = Unused /\ bestMove = Unused /\ outbox = Unused
    /\ nodes = Unused /\ i = Unused
    /\ heap = Unused /\ game = Unused /\ worker = Unused

VcfFrame ==
    UNCHANGED << board, request, iterations, aiPlayer, phases, bestMove,
                 outbox, nodes, i, heap, game, worker >>

Top == frames[Len(frames)]

\* `return v` of the innermost activation: the caller continues with v, or
\* the outermost call is over
VcfReturnValue(v, checks) ==
    IF Len(frames) = 1
    THEN /\ frames' = << >>
         /\ pc' = "returned"
         /\ call' = [call EXCEPT !.result = v, !.checks = checks]
    ELSE /\ frames' = [SubSeq(frames, 1, Len(frames) - 1) EXCEPT
                         ![Len(frames) - 1].stage = "resume",
                         ![Len(frames) - 1].ret = v]
         /\ pc' = pc
         /\ call' = [call EXCEPT !.checks = checks]

\* The caller: solveVCF(board, player, depth, startTime)
VcfCall ==
    /\ pc = "idle"
    /\ \E player \in {1, 2} : \E depth \in VcfDepths : \E checks \in Deadlines :
         call' = [NoVcfCall EXCEPT !.player = player, !.depth = depth,
                                   !.checks = checks, !.before = board]
         /\ frames' = << Frame(board, depth) >>
    /\ pc' = "running"
    /\ VcfFrame

\* solveVCF without the depth test at its entry
VcfEnter_NoDepthTest ==
    /\ pc = "running"
    /\ Top.stage = "entry"
    /\ IF call.checks = 0
       THEN VcfReturnValue(NoMove, call.checks)
       ELSE \E forcingMoves \in { getForcingMoves(Top.board, call.player) } :
                IF Len(forcingMoves) = 0
                THEN VcfReturnValue(NoMove, Tick(call.checks))
                ELSE /\ frames' = [frames EXCEPT
                                     ![Len(frames)].forcingMoves = forcingMoves,
                                     ![Len(frames)].k = 1,
                                     ![Len(frames)].stage = "loop"]
                     /\ call' = [call EXCEPT !.checks = Tick(call.checks),
                                             !.entries = call.entries + 1]
                     /\ pc' = pc
    /\ VcfFrame

\* Entry of an activation: the depth and deadline test, then
\* getForcingMoves.  (A local constant is bound with \E x \in {e}, which
\* evaluates e once.)
VcfEnter ==
    /\ pc = "running"
    /\ Top.stage = "entry"
    /\ IF Top.depth = 0 \/ call.checks = 0
       THEN VcfReturnValue(NoMove, call.checks)
       ELSE \E forcingMoves \in { getForcingMoves(Top.board, call.player) } :
                IF Len(forcingMoves) = 0
                THEN VcfReturnValue(NoMove, Tick(call.checks))
                ELSE /\ frames' = [frames EXCEPT
                                     ![Len(frames)].forcingMoves = forcingMoves,
                                     ![Len(frames)].k = 1,
                                     ![Len(frames)].stage = "loop"]
                     /\ call' = [call EXCEPT !.checks = Tick(call.checks),
                                             !.entries = call.entries + 1]
                     /\ pc' = pc
    /\ VcfFrame

\* The loop body with the recursive call made at the same depth
VcfTry_SameDepth ==
    /\ pc = "running"
    /\ Top.stage = "loop"
    /\ IF Top.k > Len(Top.forcingMoves)
       THEN VcfReturnValue(NoMove, call.checks)
       ELSE
         \E r \in { RowOf(Top.forcingMoves[Top.k]) } :
         \E c \in { ColOf(Top.forcingMoves[Top.k]) } :
         \E opponent \in { Other(call.player) } :
         \E nextBoard \in { makeMove(Top.board, r, c, call.player) } :
         \E threat \in { findWinningMove(nextBoard, call.player) } :
         \E blockedBoard \in
               { IF threat = NoMove THEN NoBoard
                 ELSE makeMove(nextBoard, threat[1], threat[2], opponent) } :
             IF checkWin(nextBoard, r, c) = call.player
             THEN VcfReturnValue(<<r, c>>, call.checks)
             ELSE IF threat = NoMove
                     \/ checkWin(blockedBoard, threat[1], threat[2]) = opponent
             THEN /\ frames' = [frames EXCEPT ![Len(frames)].k = Top.k + 1]
                  /\ UNCHANGED << pc, call >>
             ELSE /\ frames' = Append([frames EXCEPT ![Len(frames)].stage = "wait"],
                                      Frame(blockedBoard, Top.depth))
                  /\ UNCHANGED << pc, call >>
    /\ VcfFrame

\* One pass of the for loop up to the recursive call, or the return after
\* the loop
VcfTry ==
    /\ pc = "running"
    /\ Top.stage = "loop"
    /\ IF Top.k > Len(Top.forcingMoves)
       THEN VcfReturnValue(NoMove, call.checks)
       ELSE
         \E r \in { RowOf(Top.forcingMoves[Top.k]) } :
         \E c \in { ColOf(Top.forcingMoves[Top.k]) } :
         \E opponent \in { Other(call.player) } :
         \E nextBoard \in { makeMove(Top.board, r, c, call.player) } :
         \E threat \in { findWinningMove(nextBoard, call.player) } :
         \E blockedBoard \in
               { IF threat = NoMove THEN NoBoard
                 ELSE makeMove(nextBoard, threat[1], threat[2], opponent) } :
             IF checkWin(nextBoard, r, c) = call.player
             THEN VcfReturnValue(<<r, c>>, call.checks)
             ELSE IF threat = NoMove
                     \/ checkWin(blockedBoard, threat[1], threat[2]) = opponent
             THEN /\ frames' = [frames EXCEPT ![Len(frames)].k = Top.k + 1]
                  /\ UNCHANGED << pc, call >>
             ELSE /\ frames' = Append([frames EXCEPT ![Len(frames)].stage = "wait"],
                                      Frame(blockedBoard, Top.depth - 1))
                  /\ UNCHANGED << pc, call >>
    /\ VcfFrame

\* solveVCF returning the move its recursive call found
VcfResume_ReturnsSubMove ==
    /\ pc = "running"
    /\ Top.stage = "resume"
    /\ IF Top.ret # NoMove
       THEN VcfReturnValue(Top.ret, call.checks)
       ELSE /\ frames' = [frames EXCEPT ![Len(frames)].k = Top.k + 1,
                                        ![Len(frames)].stage = "loop"]
            /\ UNCHANGED << pc, call >>
    /\ VcfFrame

\* After the recursive call: `if (result) return [r, c]`, else the next
\* forcing move
VcfResume ==
    /\ pc = "running"
    /\ Top.stage = "resume"
    /\ IF Top.ret # NoMove
       THEN VcfReturnValue(<< RowOf(Top.forcingMoves[Top.k]),
                              ColOf(Top.forcingMoves[Top.k]) >>, call.checks)
       ELSE /\ frames' = [frames EXCEPT ![Len(frames)].k = Top.k + 1,
                                        ![Len(frames)].stage = "loop"]
            /\ UNCHANGED << pc, call >>
    /\ VcfFrame

\* The caller drops the result
VcfDone ==
    /\ pc = "returned"
    /\ pc' = "idle"
    /\ call' = NoVcfCall
    /\ UNCHANGED frames
    /\ VcfFrame

VcfNext ==
    \/ VcfCall
    \/ VcfEnter
    \/ VcfTry
    \/ VcfResume
    \/ VcfDone

SpecVCF == VcfInit /\ [][VcfNext]_vars

\* The boards of the runs followed to their end
VcfLiveBoards == { createEmptyBoard, FourThreeBoard }

VcfLiveInit == VcfInit /\ board \in VcfLiveBoards

\* JavaScript runs a call to completion: an activation that can take a step
\* takes it
SpecVCFLive ==
    VcfLiveInit /\ [][VcfNext]_vars /\ WF_vars(VcfEnter \/ VcfTry \/ VcfResume)

\* ------------------------------------------------------------------------
\* The tree search of findBestMove step by step: select, expand, simulate,
\* backpropagate
\* ------------------------------------------------------------------------

\* The iteration budget of the runs followed step by step
MaxIterations == 12

\* findBestMove reaches the tree search on board b for player p: no step
\* before it returns a move
ReachesTreeSearch(b, p) ==
    /\ checkOpeningBook(b) = NoMove
    /\ findWinningMove(b, p) = NoMove
    /\ findWinningMove(b, Other(p)) = NoMove
    /\ solveVCF(b, p, VCF_MAX_DEPTH, NoDeadline).move = NoMove
    /\ solveVCF(b, Other(p), VCF_MAX_DEPTH, NoDeadline).move = NoMove
    /\ findFour(b, Other(p)) = NoMove
    /\ findFour(b, p) = NoMove
    /\ Len(findOpenThree(b, Other(p))) = 0

\* Nearly full boards; on the ones with holes in row 0 a stone in one hole
\* lets its owner complete five in the next one
TreeHoleSets ==
    { {},
      { <<2, 2>> },
      { <<2, 2>>, <<11, 9>> },
      { <<0, 4>>, <<0, 5>>, <<0, 9>> },
      { <<0, 2>>, <<0, 3>>, <<2, 3>> } }

\* The roots of the search: board and searching player
TreeRoots ==
    { t \in { Holes(H) : H \in TreeHoleSets } \X {1, 2} :
        ReachesTreeSearch(t[1], t[2]) }

\* The locals of the loop body, the tree before the last step, and the
\* node and result of every backpropagate so far
NoIteration ==
    [ node |-> 0, expandedNode |-> 0, result2 |-> 0, before |-> << >>,
      log |-> << >> ]

TreeInit ==
    /\ \E t \in TreeRoots :
         /\ board = t[1]
         /\ aiPlayer = t[2]
         /\ nodes = << createNode(t[1], NoMove, 0, t[2]) >>
    /\ iterations = MaxIterations
    /\ i = 0
    /\ pc = "select"
    /\ bestMove = NoMove
    /\ call = NoIteration
    /\ request = Unused /\ phases = Unused /\ outbox = Unused
    /\ heap = Unused /\ game = Unused /\ worker = Unused /\ frames = Unused

TreeFrame ==
    UNCHANGED << board, aiPlayer, iterations, request, phases, outbox, heap,
                 game, worker, frames >>

\* The loop without the test whether node.move completed five
TreeSelect_NoTerminalTest ==
    /\ pc = "select"
    /\ i < iterations
    /\ \E node \in select(nodes, 1) :
         /\ call' = [call EXCEPT !.node = node, !.before = nodes]
         /\ pc' = "expand"
    /\ UNCHANGED << nodes, i, bestMove >>
    /\ TreeFrame

\* const node = select(root), and the test whether node.move completed
\* five
TreeSelect ==
    /\ pc = "select"
    /\ i < iterations
    /\ \E node \in select(nodes, 1) :
         LET winner ==
               IF nodes[node].move # NoMove
               THEN checkWin(nodes[node].board, nodes[node].move[1],
                             nodes[node].move[2])
               ELSE 0
         IN  IF winner # 0
             THEN /\ call' = [call EXCEPT
                                !.node = node, !.expandedNode = node,
                                !.result2 = IF winner = aiPlayer THEN 2 ELSE 0,
                                !.before = nodes]
                  /\ pc' = "backpropagate"
             ELSE /\ call' = [call EXCEPT !.node = node, !.before = nodes]
                  /\ pc' = "expand"
    /\ UNCHANGED << nodes, i, bestMove >>
    /\ TreeFrame

\* const expandedNode = expand(node)
TreeExpand ==
    /\ pc = "expand"
    /\ \E k \in 1 .. (IF Len(nodes[call.node].untriedMoves) = 0 THEN 1
                      ELSE Len(nodes[call.node].untriedMoves)) :
         nodes' = expand(nodes, call.node, k)
    /\ call' = [call EXCEPT !.expandedNode = Expanded(nodes, call.node),
                            !.before = nodes]
    /\ pc' = "simulate"
    /\ UNCHANGED << i, bestMove >>
    /\ TreeFrame

\* const result = simulate(expandedNode.board, ..., aiPlayer)
TreeSimulate ==
    /\ pc = "simulate"
    /\ \E result2 \in
           simulate(nodes[call.expandedNode].board,
                    IF nodes[call.expandedNode].player = aiPlayer
                    THEN Other(aiPlayer) ELSE aiPlayer,
                    aiPlayer) :
         call' = [call EXCEPT !.result2 = result2, !.before = nodes]
    /\ pc' = "backpropagate"
    /\ UNCHANGED << nodes, i, bestMove >>
    /\ TreeFrame

\* backpropagate(expandedNode, result, aiPlayer), and i++
TreeBackpropagate ==
    /\ pc = "backpropagate"
    /\ nodes' = backpropagate(nodes, call.expandedNode, call.result2, aiPlayer)
    /\ call' = [call EXCEPT
                  !.before = nodes,
                  !.log = Append(@, << call.expandedNode, call.result2 >>)]
    /\ i' = i + 1
    /\ pc' = "select"
    /\ UNCHANGED bestMove
    /\ TreeFrame

\* After the loop: the move of the robust child, when there is one
TreeDecide ==
    /\ pc = "select"
    /\ i >= iterations
    /\ bestMove' = IF RobustChild(nodes) # 0
                   THEN nodes[RobustChild(nodes)].move
                   ELSE NoMove
    /\ pc' = "return"
    /\ UNCHANGED << nodes, i, call >>
    /\ TreeFrame

TreeNext ==
    \/ TreeSelect
    \/ TreeExpand
    \/ TreeSimulate
    \/ TreeBackpropagate
    \/ TreeDecide

SpecTree == TreeInit /\ [][TreeNext]_vars

\* ------------------------------------------------------------------------
\* mcts-worker.ts: findBestMove, the loop of the MCTS layer late in a search
\* ------------------------------------------------------------------------

\* A won node that still has an untried move is first selected in the 35th
\* iteration of the search below; the specification SpecTreeLate runs the
\* loop on that search step by step as SpecTree does, following in the
\* first 34 iterations the one descent the ucb1 values of the code take,
\* and leaving the iterations after those to every descent select allows.

\* Board and searching player: the board is full but for four cells, and
\* player 1 completes five in row 0 with stones on (0,2) and (0,3)
LateRoot == << Holes({ <<0, 2>>, <<0, 3>>, <<2, 3>>, <<11, 9>> }), 2 >>

\* The node select(root) returns in each of the first 34 iterations of
\* findBestMove on LateRoot when Math.random() returns 0 in every
\* expand (the first untried move is taken).  In each descent the child
\* followed has the greatest ucb1 value by more than 0.01.
LateLeaves ==
    << 1, 1, 1, 1, 2, 3, 4, 5, 2, 3, 4, 5, 4, 5, 2, 3, 8, 9, 12, 13, 14, 15,
       10, 11, 18, 9, 16, 17, 12, 13, 6, 7, 22, 15 >>

\* The number of iterations run after those
LateIterations == 5

LateInit ==
    /\ board = LateRoot[1]
    /\ aiPlayer = LateRoot[2]
    /\ ReachesTreeSearch(board, aiPlayer)
    /\ nodes = << createNode(board, NoMove, 0, aiPlayer) >>
    /\ iterations = Len(LateLeaves) + LateIterations
    /\ i = 0
    /\ pc = "select"
    /\ bestMove = NoMove
    /\ call = NoIteration
    /\ request = Unused /\ phases = Unused /\ outbox = Unused
    /\ heap = Unused /\ game = Unused /\ worker = Unused /\ frames = Unused

\* const node = select(root): in the first iterations the node with the
\* greatest ucb1 values on the way down
LateSelect ==
    /\ TreeSelect
    /\ i < Len(LateLeaves) => call'.node = LateLeaves[i + 1]

\* const expandedNode = expand(node): in the first iterations
\* Math.random() returns 0
LateExpand ==
    /\ TreeExpand
    /\ i < Len(LateLeaves) => nodes' = expand(nodes, call.node, 1)

LateNext ==
    \/ LateSelect
    \/ LateExpand
    \/ TreeSimulate
    \/ TreeBackpropagate
    \/ TreeDecide

SpecTreeLate == LateInit /\ [][LateNext]_vars

\* ------------------------------------------------------------------------
\* simulate step by step: one ply of the rollout at a time
\* ------------------------------------------------------------------------

\* Sparse boards on which the rollout is decided by the first plies: an
\* open four, a closed four, a four of each player, a five already on the
\* board
SimLineBoards ==
    { Put(Line(<<3, 3>>, 1, 4, 1)),
      Put(Line(<<3, 3>>, 1, 4, 1) \cup { <<3, 2, 2>> }),
      Put(Line(<<3, 3>>, 1, 4, 1) \cup Line(<<9, 4>>, 2, 4, 2)),
      Put(Line(<<3, 3>>, 1, 4, 1) \cup Line(<<9, 4>>, 2, 5, 2)) }

\* Nearly full boards: the rollout fills the holes
SimHoleSets ==
    { {},
      { <<2, 2>> },
      { <<2, 2>>, <<11, 9>> },
      { <<0, 4>>, <<0, 5>>, <<0, 9>> },
      { <<0, 2>>, <<0, 3>>, <<2, 3>>, <<11, 9>> } }

\* The nearly full boards, and the same with a stone in the first hole of
\* row 0, after which its owner completes five in the next hole
SimBoards ==
    SimLineBoards
    \cup { Holes(H) : H \in SimHoleSets }
    \cup { makeMove(Holes({ <<0, 4>>, <<0, 5>>, <<0, 9>> }), 0, 4, 2),
           makeMove(Holes({ <<0, 2>>, <<0, 3>>, <<2, 3>> }), 0, 2, 1) }

\* No rollout in progress.  result2 is the doubled result, -1 before the
\* return; plies are the <<move index, player>> played so far.
NoRollout ==
    [ player |-> 0, aiPlayer |-> 0, before |-> NoBoard,
      currentBoard |-> NoBoard, currentPlayer |-> 0, i |-> 0,
      plies |-> << >>, result2 |-> -1 ]

SimInit ==
    /\ board \in SimBoards
    /\ pc = "idle"
    /\ call = NoRollout
    /\ request = Unused /\ iterations = Unused /\ aiPlayer = Unused
    /\ phases = Unused /\ bestMove = Unused /\ outbox = Unused
    /\ nodes = Unused /\ i = Unused
    /\ heap = Unused /\ game = Unused /\ worker = Unused /\ frames = Unused

SimFrame ==
    UNCHANGED << request, iterations, aiPlayer, phases, bestMove, outbox,
                 nodes, i, heap, game, worker, frames >>

\* simulate(board, player, aiPlayer): currentBoard is a copy of the rows
SimCall ==
    /\ pc = "idle"
    /\ \E player \in {1, 2} : \E ai \in {1, 2} :
         call' = [NoRollout EXCEPT
                    !.player = player, !.aiPlayer = ai, !.before = board,
                    !.currentBoard = copyBoard(board),
                    !.currentPlayer = player]
    /\ pc' = "rollout"
    /\ UNCHANGED board
    /\ SimFrame

\* A rollout that does not hand the turn to the other player
SimPly_SamePlayer ==
    /\ pc = "rollout"
    /\ IF call.i >= MaxPlies
       THEN /\ call' = [call EXCEPT !.result2 = 1]
            /\ pc' = "returned"
       ELSE
         LET winMove   == findWinningMove(call.currentBoard, call.currentPlayer)
             blockMove == findWinningMove(call.currentBoard,
                                          Other(call.currentPlayer))
             moves ==
               IF winMove # NoMove THEN { toIndex(winMove[1], winMove[2]) }
               ELSE IF blockMove # NoMove
               THEN { toIndex(blockMove[1], blockMove[2]) }
               ELSE getMoveWithInfluence(call.currentBoard,
                                         getCandidateMoves(call.currentBoard))
         IN  \E moveIdx \in moves :
               IF moveIdx = -1
               THEN /\ call' = [call EXCEPT !.result2 = 1]
                    /\ pc' = "returned"
               ELSE IF call.currentBoard[RowOf(moveIdx)][ColOf(moveIdx)] # 0
               THEN /\ call' = [call EXCEPT !.result2 = 1]
                    /\ pc' = "returned"
               ELSE
                 LET played == [call.currentBoard EXCEPT
                                  ![RowOf(moveIdx)][ColOf(moveIdx)] =
                                      call.currentPlayer]
                     winner == checkWin(played, RowOf(moveIdx), ColOf(moveIdx))
                     plies  == Append(call.plies,
                                      << moveIdx, call.currentPlayer >>)
                 IN  IF winner # 0
                     THEN /\ call' = [call EXCEPT
                                        !.currentBoard = played,
                                        !.plies = plies,
                                        !.result2 = IF winner = call.aiPlayer
                                                    THEN 2 ELSE 0]
                          /\ pc' = "returned"
                     ELSE /\ call' = [call EXCEPT
                                        !.currentBoard = played,
                                        !.plies = plies,
                                        !.i = call.i + 1]
                          /\ pc' = pc
    /\ UNCHANGED board
    /\ SimFrame

\* One pass of the for loop, or the return after it
SimPly ==
    /\ pc = "rollout"
    /\ IF call.i >= MaxPlies
       THEN /\ call' = [call EXCEPT !.result2 = 1]
            /\ pc' = "returned"
       ELSE
         LET winMove   == findWinningMove(call.currentBoard, call.currentPlayer)
             blockMove == findWinningMove(call.currentBoard,
                                          Other(call.currentPlayer))
             moves ==
               IF winMove # NoMove THEN { toIndex(winMove[1], winMove[2]) }
               ELSE IF blockMove # NoMove
               THEN { toIndex(blockMove[1], blockMove[2]) }
               ELSE getMoveWithInfluence(call.currentBoard,
                                         getCandidateMoves(call.currentBoard))
         IN  \E moveIdx \in moves :
               IF moveIdx = -1
               THEN /\ call' = [call EXCEPT !.result2 = 1]
                    /\ pc' = "returned"
               ELSE IF call.currentBoard[RowOf(moveIdx)][ColOf(moveIdx)] # 0
               THEN /\ call' = [call EXCEPT !.result2 = 1]
                    /\ pc' = "returned"
               ELSE
                 LET played == [call.currentBoard EXCEPT
                                  ![RowOf(moveIdx)][ColOf(moveIdx)] =
                                      call.currentPlayer]
                     winner == checkWin(played, RowOf(moveIdx), ColOf(moveIdx))
                     plies  == Append(call.plies,
                                      << moveIdx, call.currentPlayer >>)
                 IN  IF winner # 0
                     THEN /\ call' = [call EXCEPT
                                        !.currentBoard = played,
                                        !.plies = plies,
                                        !.result2 = IF winner = call.aiPlayer
                                                    THEN 2 ELSE 0]
                          /\ pc' = "returned"
                     ELSE /\ call' = [call EXCEPT
                                        !.currentBoard = played,
                                        !.plies = plies,
                                        !.currentPlayer = Other(call.currentPlayer),
                                        !.i = call.i + 1]
                          /\ pc' = pc
    /\ UNCHANGED board
    /\ SimFrame

\* The caller takes the result
SimDone ==
    /\ pc = "returned"
    /\ pc' = "idle"
    /\ call' = NoRollout
    /\ UNCHANGED board
    /\ SimFrame

SimNext ==
    \/ SimCall
    \/ SimPly
    \/ SimDone

SpecSim == SimInit /\ [][SimNext]_vars

\* ------------------------------------------------------------------------
\* Properties of the worker (specification Spec)
\* ------------------------------------------------------------------------

\* The board is a 15x15 grid of cells in {0, 1, 2}
ValidBoard(b) ==
    /\ b # NullBoard
    /\ \A r \in Idx : \A c \in Idx : b[r][c] \in {0, 1, 2}

\* The empty cells where a stone of `player` completes five in a row, judged
\* by placing the stone and calling checkWin
FiveCells(b, player) ==
    { << r, c >> \in Idx \X Idx :
        b[r][c] = 0 /\ checkWin(makeMove(b, r, c, player), r, c) = player }

\* The first pair of a non-empty set of cells in row-major order
FirstInRowMajor(S) ==
    CHOOSE m \in S : \A n \in S : toIndex(m[1], m[2]) <= toIndex(n[1], n[2])

\* C1: for a board that is not full and a searching player in {1, 2},
\* findBestMove does not throw and returns a move [row, column] with
\* 0 <= row, column < 15.
C1_AlwaysReturnsMove ==
    (ValidBoard(board) /\ ~isBoardFull(board) /\ aiPlayer \in {1, 2})
    => /\ pc # "catch"
       /\ pc \in {"return", "done"}
            => /\ Len(bestMove) = 2
               /\ InBounds(bestMove[1], bestMove[2])
       /\ pc = "done" => outbox = << [move |-> bestMove] >>

\* C1 witness: the search tree decided the move of a board that is not full
C1_Witness ==
    /\ pc = "return"
    /\ "robust" \in phases
    /\ ~isBoardFull(board)
    /\ Len(bestMove) = 2

\* C2: when the opening book does not fire and the searching player has a
\* cell completing five, findBestMove returns findWinningMove for the
\* searching player, a cell that completes five, and only the book and the
\* win step ran, whether or not the opponent has a winning cell too.
C2_ImmediateWinFirst ==
    (/\ pc = "return"
     /\ checkOpeningBook(board) = NoMove
     /\ FiveCells(board, aiPlayer) # {})
    => /\ bestMove = findWinningMove(board, aiPlayer)
       /\ bestMove \in FiveCells(board, aiPlayer)
       /\ phases = {"book", "win"}

\* C2 witness: a returned decision on a board where both players have a
\* cell completing five
C2_Witness ==
    /\ pc = "return"
    /\ checkOpeningBook(board) = NoMove
    /\ FiveCells(board, aiPlayer) # {}
    /\ FiveCells(board, Other(aiPlayer)) # {}

\* C3: when the book does not fire, the searching player has no cell
\* completing five and the opponent has one, findBestMove returns
\* findWinningMove for the opponent, a cell completing the opponent's five,
\* and no step after the block ran.
C3_BlockOpponentWin ==
    (/\ pc = "return"
     /\ checkOpeningBook(board) = NoMove
     /\ FiveCells(board, aiPlayer) = {}
     /\ FiveCells(board, Other(aiPlayer)) # {})
    => /\ bestMove = findWinningMove(board, Other(aiPlayer))
       /\ bestMove \in FiveCells(board, Other(aiPlayer))
       /\ phases = {"book", "win", "block"}

\* C3 witness: a returned decision where only the opponent can complete five
C3_Witness ==
    /\ pc = "return"
    /\ checkOpeningBook(board) = NoMove
    /\ FiveCells(board, aiPlayer) = {}
    /\ FiveCells(board, Other(aiPlayer)) # {}

\* The end cells of the open fours of `player`: four contiguous stones on
\* one axis with both adjacent cells in bounds and empty
OpenFourEnds(b, player) ==
    UNION {
      LET dr == directions[t[1]][1]
          dc == directions[t[1]][2]
          r  == t[2]
          c  == t[3]
      IN  IF /\ InBounds(r - dr, c - dc) /\ b[r - dr][c - dc] = 0
             /\ InBounds(r + 4 * dr, c + 4 * dc)
             /\ b[r + 4 * dr][c + 4 * dc] = 0
             /\ \A j \in 0 .. 3 : b[r + j * dr][c + j * dc] = player
          THEN { << r - dr, c - dc >>, << r + 4 * dr, c + 4 * dc >> }
          ELSE {}
      : t \in (1 .. 4) \X Idx \X Idx }

\* C4 as stated: on any board where player 2 has an open four,
\* findBestMove for player 1 returns one of its two end cells, without the
\* tree search.
C4_Original ==
    (/\ pc = "return"
     /\ aiPlayer = 1
     /\ OpenFourEnds(board, 2) # {})
    => /\ bestMove \in OpenFourEnds(board, 2)
       /\ "mcts" \notin phases

\* C4 amended: on a board where player 2 has an open four and player 1 has
\* no cell completing five of its own, findBestMove for player 1 returns
\* the row-major first cell completing five for player 2, which is an end
\* cell of the four when the end cells are the only such cells, and the tree
\* search is not entered.
C4_BlocksOpenFour ==
    (/\ pc = "return"
     /\ aiPlayer = 1
     /\ OpenFourEnds(board, 2) # {}
     /\ FiveCells(board, 1) = {})
    => /\ bestMove = FirstInRowMajor(FiveCells(board, 2))
       /\ FiveCells(board, 2) \subseteq OpenFourEnds(board, 2)
            => bestMove \in OpenFourEnds(board, 2)
       /\ "mcts" \notin phases

\* C4 witness: player 1 has no five of its own and blocks the open four of
\* player 2 at one of its ends
C4_Witness ==
    /\ pc = "return"
    /\ aiPlayer = 1
    /\ OpenFourEnds(board, 2) # {}
    /\ FiveCells(board, 1) = {}
    /\ bestMove \in OpenFourEnds(board, 2)

\* C5: on the empty board with searching player 1, findBestMove returns the
\* centre [7, 7] from the opening book, before any other step.
C5_EmptyBoardCentre ==
    (/\ pc = "return"
     /\ aiPlayer = 1
     /\ Stones(board) = {})
    => /\ bestMove = <<7, 7>>
       /\ phases = {"book"}

\* C5 witness: the decision for player 1 on the empty board has returned
C5_Witness ==
    /\ pc = "return"
    /\ aiPlayer = 1
    /\ board = createEmptyBoard

\* C7: every message gets exactly one response, posted when the handler is
\* done: {move: null} when findBestMove threw, else its return value; no
\* response is posted before, and none twice.
C7_OneResponsePerRequest ==
    /\ pc \notin {"done", "idle"} => outbox = << >>
    /\ pc = "done"
         => /\ Len(outbox) = 1
            /\ "catch" \in phases => outbox[1].move = NoMove
            /\ "catch" \notin phases
                 => outbox[1].move = bestMove /\ Len(bestMove) = 2
    /\ pc = "catch" => request.board = NullBoard

\* C7 witness: the handler is done with a message whose board threw, having
\* posted {move: null}
C7_Witness ==
    /\ pc = "done"
    /\ "catch" \in phases
    /\ outbox = << [move |-> NoMove] >>

\* The request is a 15x15 board of cells in {0, 1, 2} with a player in
\* {1, 2} (0: the field is missing)
ValidRequest(req) ==
    /\ ValidBoard(req.board)
    /\ req.aiPlayer \in {0, 1, 2}

\* C8 as stated: a request with a cell value outside {0, 1, 2} or a player
\* out of range is rejected before any step of the search runs, and no move
\* is computed for it.
C8_RejectsInvalidInput ==
    (pc # "idle" /\ ~ValidRequest(request))
    => /\ bestMove = NoMove
       /\ request.board # NullBoard => phases = {}

\* ------------------------------------------------------------------------
\* Properties of makeMove (specification SpecMakeMove)
\* ------------------------------------------------------------------------

\* C9: makeMove never mutates its input board: after a call with an
\* in-range coordinate the input board holds what it held before, and the
\* returned board equals the input at every cell except the target, which
\* holds the player.
C9_MakeMoveKeepsInput ==
    (call.n > 0 /\ InBounds(call.row, call.col))
    => /\ ~call.threw
       /\ Deref(heap, call.input) = call.before
       /\ Cells(heap, call.result)
            = [AsRows(call.before) EXCEPT ![call.row][call.col] = call.player]
       /\ Cells(heap, call.result)
            = makeMove(call.before, call.row, call.col, call.player)

\* C9 witness: a call on the board a previous call returned, at an in-range
\* coordinate
C9_Witness ==
    /\ call.n > 1
    /\ InBounds(call.row, call.col)
    /\ call.input # [r \in Idx |-> r + 1]
    /\ ~call.threw

\* C10 as stated: makeMove fails and produces no board when the target is
\* occupied or outside the grid.
C10_FailsOnOccupiedOrOutOfRange ==
    (/\ call.n > 0
     /\ \/ ~InBounds(call.row, call.col)
        \/ call.before[call.row][call.col] # 0)
    => call.threw /\ call.result = NoBoard

\* ------------------------------------------------------------------------
\* Properties of the host (specification SpecHost)
\* ------------------------------------------------------------------------

\* C6 as stated: between two resets (a step that leaves the move count
\* above zero is not a reset), a cell of the game board that is occupied
\* keeps its value, and the board stays 15x15.
C6_OccupiedCellsKeepValue ==
    [][ game'.moveCount > 0
        => /\ DOMAIN game'.board = Idx
           /\ \A r \in Idx :
                /\ DOMAIN game'.board[r] = Idx
                /\ \A c \in Idx :
                     game.board[r][c] # 0
                     => game'.board[r][c] = game.board[r][c] ]_vars

\* ------------------------------------------------------------------------
\* Properties of the pure functions (specification SpecPatterns)
\* ------------------------------------------------------------------------

\* Five consecutive in-bounds cells on axis k that include (r, c) and all
\* hold the value of (r, c)
FiveThrough(b, r, c, k) ==
    \E o \in 0 .. 4 :
       \A j \in 0 .. 4 :
          LET rr == r + (j - o) * WinDirections[k][1]
              cc == c + (j - o) * WinDirections[k][2]
          IN  InBounds(rr, cc) /\ b[rr][cc] = b[r][c]

\* C11: checkWin(board, r, c) returns board[r][c] exactly when the cell is
\* occupied and, on one of the four axes, the contiguous run of that
\* player's stones through (r, c) has length five or more; otherwise it
\* returns no winner, in particular for an empty cell.
C11_CheckWinIffRunOfFive ==
    call.op = "checkWin"
    => IF /\ board[call.row][call.col] # 0
          /\ \E k \in 1 .. 4 : FiveThrough(board, call.row, call.col, k)
       THEN call.result = board[call.row][call.col]
       ELSE call.result = 0

\* C11 witness: checkWin names the winner at a stone in the middle of a
\* run of five
C11_Witness ==
    /\ call.op = "checkWin"
    /\ call.result = 1
    /\ call.row = 0 /\ call.col = 2
    /\ board[0][0] = 1 /\ board[0][4] = 1

\* The number of consecutive cells holding p that follow (r, c) in the
\* direction (dr, dc)
Following(b, r, c, dr, dc, p) ==
    CHOOSE n \in 0 .. BOARD_SIZE :
       /\ \A j \in 1 .. n :
             InBounds(r + j * dr, c + j * dc) /\ b[r + j * dr][c + j * dc] = p
       /\ ~(/\ InBounds(r + (n + 1) * dr, c + (n + 1) * dc)
            /\ b[r + (n + 1) * dr][c + (n + 1) * dc] = p)

\* 1 when the cell just past the run that follows (r, c) in the direction
\* (dr, dc) is in bounds and empty
OpenPast(b, r, c, dr, dc, p) ==
    LET n  == Following(b, r, c, dr, dc, p)
        er == r + (n + 1) * dr
        ec == c + (n + 1) * dc
    IN  IF InBounds(er, ec) /\ b[er][ec] = 0 THEN 1 ELSE 0

\* count and openEnds as the claims define them
PatternAt(b, r, c, k, p) ==
    LET dr == directions[k][1]
        dc == directions[k][2]
    IN  [ count    |-> 1 + Following(b, r, c, dr, dc, p)
                         + Following(b, r, c, -dr, -dc, p),
          openEnds |-> OpenPast(b, r, c, dr, dc, p)
                         + OpenPast(b, r, c, -dr, -dc, p) ]

\* C12: for every board, cell, axis and player, detectPattern returns
\* count = 1 + the contiguous player stones immediately forward + those
\* immediately backward (so count >= 1), and openEnds = the number of the
\* two cells just past the run's ends that are in bounds and empty (so
\* openEnds is 0, 1 or 2).
C12_DetectPatternCounts ==
    call.op = "detectPattern"
    => /\ call.result
            = PatternAt(board, call.row, call.col, call.k, call.player)
       /\ call.result.count >= 1
       /\ call.result.openEnds \in {0, 1, 2}

\* C12 witness: a pattern with stones on both sides of the cell, one end
\* open and the other closed by an opponent's stone
C12_Witness ==
    /\ call.op = "detectPattern"
    /\ call.result = [count |-> 5, openEnds |-> 1]
    /\ Following(board, call.row, call.col, directions[call.k][1],
                 directions[call.k][2], call.player) = 3
    /\ Following(board, call.row, call.col, -directions[call.k][1],
                 -directions[call.k][2], call.player) = 1

CountCells(b, p, n) ==
    { m \in Idx \X Idx :
        /\ b[m[1]][m[2]] = 0
        /\ \E k \in 1 .. 4 : PatternAt(b, m[1], m[2], k, p).count >= n }

\* m comes before n in row-major order: lower row, or same row and lower
\* column
RowMajorBefore(m, n) == m[1] < n[1] \/ (m[1] = n[1] /\ m[2] < n[2])

\* The row-major first cell of a non-empty set of cells
RowMajorFirst(S) == CHOOSE m \in S : \A n \in S \ {m} : RowMajorBefore(m, n)

\* The cells [r, c] of a sequence of flat indices
CellsOf(moves) == { fromIndex(moves[j]) : j \in DOMAIN moves }

\* A sequence of flat indices lists its cells in row-major order, each once
InRowMajorOrder(moves) ==
    \A j \in DOMAIN moves : \A l \in DOMAIN moves :
       j < l => RowMajorBefore(fromIndex(moves[j]), fromIndex(moves[l]))

\* C14: findWinningMove(board, player) returns the row-major first empty
\* cell at which some axis has count >= 5, and null if there is none; with
\* player 1 on row 7 columns 4-7 and the rest empty it returns (7, 3).
C14_FindWinningMoveFirst ==
    call.op = "findWinningMove"
    => /\ IF CountCells(board, call.player, 5) = {}
          THEN call.result = NoMove
          ELSE call.result = RowMajorFirst(CountCells(board, call.player, 5))
       /\ (board = Put(Line(<<7, 4>>, 2, 4, 1)) /\ call.player = 1)
          => call.result = <<7, 3>>

\* C14 witness: the call for player 1 on the board with row 7, columns 4-7
C14_Witness ==
    /\ call.op = "findWinningMove"
    /\ call.player = 1
    /\ board = Put(Line(<<7, 4>>, 2, 4, 1))
    /\ CountCells(board, 1, 5) = { <<7, 3>>, <<7, 8>> }
    /\ call.result = <<7, 3>>

\* C15: getForcingMoves(board, player) returns exactly the empty cells at
\* which some axis has count >= 4, each once, in row-major order; findFour
\* is null iff there is no such cell and otherwise is the first of them.
C15_ForcingMovesAndFindFour ==
    /\ call.op = "getForcingMoves"
       => /\ CellsOf(call.result) = CountCells(board, call.player, 4)
          /\ InRowMajorOrder(call.result)
    /\ call.op = "findFour"
       => /\ call.result = NoMove <=> CountCells(board, call.player, 4) = {}
          /\ call.result # NoMove
             => /\ call.result
                     = RowMajorFirst(CountCells(board, call.player, 4))
                /\ Len(getForcingMoves(board, call.player)) > 0
                /\ call.result
                     = fromIndex(getForcingMoves(board, call.player)[1])

\* C15 witness: several forcing moves, one of them a cell with count >= 4
\* on two axes
C15_Witness ==
    /\ call.op = "getForcingMoves"
    /\ Len(call.result) >= 3
    /\ \E j \in DOMAIN call.result :
          Cardinality({ k \in 1 .. 4 :
              PatternAt(board, RowOf(call.result[j]), ColOf(call.result[j]),
                        k, call.player).count >= 4 }) >= 2

\* The empty cells with count = 3 and two open ends on some axis
OpenThreeCells(b, p) ==
    { m \in Idx \X Idx :
        /\ b[m[1]][m[2]] = 0
        /\ \E k \in 1 .. 4 :
              PatternAt(b, m[1], m[2], k, p) = [count |-> 3, openEnds |-> 2] }

\* C16: findOpenThree(board, player) returns all empty cells at which some
\* axis has count = 3 and openEnds = 2, each exactly once even when
\* several axes qualify, and no other cell.
C16_FindOpenThreeAll ==
    call.op = "findOpenThree"
    => /\ CellsOf(call.result) = OpenThreeCells(board, call.player)
       /\ Len(call.result) = Cardinality(OpenThreeCells(board, call.player))

\* C16 witness: several open threes, one of them on two axes of the same
\* cell
C16_Witness ==
    /\ call.op = "findOpenThree"
    /\ Len(call.result) >= 2
    /\ \E j \in DOMAIN call.result :
          Cardinality({ k \in 1 .. 4 :
              PatternAt(board, RowOf(call.result[j]), ColOf(call.result[j]),
                        k, call.player) = [count |-> 3, openEnds |-> 2] }) >= 2

\* C17: on a board with no stones getCandidateMoves returns exactly one
\* move, the centre cell (row 7, column 7, flat index 112).
C17_EmptyBoardCandidate ==
    (/\ call.op = "getCandidateMoves"
     /\ \A r \in Idx : \A c \in Idx : board[r][c] = 0)
    => /\ call.result = << 112 >>
       /\ fromIndex(call.result[1]) = <<7, 7>>

\* C17 witness: the call on the board without stones
C17_Witness ==
    /\ call.op = "getCandidateMoves"
    /\ board = createEmptyBoard
    /\ Len(call.result) = 1

\* The larger of the two coordinate distances of two cells
Chebyshev(m, n) ==
    LET dr == IF m[1] > n[1] THEN m[1] - n[1] ELSE n[1] - m[1]
        dc == IF m[2] > n[2] THEN m[2] - n[2] ELSE n[2] - m[2]
    IN  IF dr > dc THEN dr ELSE dc

\* The empty cells within Chebyshev distance 2 of an occupied cell
NearStones(b) ==
    { m \in Idx \X Idx :
        /\ b[m[1]][m[2]] = 0
        /\ \E n \in Idx \X Idx : b[n[1]][n[2]] # 0 /\ Chebyshev(m, n) <= 2 }

\* C18: on a board with at least one stone getCandidateMoves returns
\* exactly the empty cells within Chebyshev distance 2 of an occupied cell,
\* without duplicates and with no occupied cell; the result is empty only
\* when the board is full.
C18_CandidatesNearStones ==
    (/\ call.op = "getCandidateMoves"
     /\ \E r \in Idx : \E c \in Idx : board[r][c] # 0)
    => /\ CellsOf(call.result) = NearStones(board)
       /\ Len(call.result) = Cardinality(NearStones(board))
       /\ \A j \in DOMAIN call.result :
             /\ call.result[j] \in 0 .. (BOARD_SIZE * BOARD_SIZE - 1)
             /\ board[RowOf(call.result[j])][ColOf(call.result[j])] = 0
       /\ call.result = << >>
          => \A r \in Idx : \A c \in Idx : board[r][c] # 0

\* C18 witness: the candidates around stones in two corners, which reach
\* distance 2 and stop at the edges
C18_Witness ==
    /\ call.op = "getCandidateMoves"
    /\ board = Put({ <<14, 14, 1>>, <<0, 14, 2>> })
    /\ Len(call.result) = 16
    /\ <<2, 12>> \in CellsOf(call.result)
    /\ <<3, 14>> \notin CellsOf(call.result)

\* C19 as stated: whenever the player has an immediate winning move,
\* getExpansionMoves(board, player) returns only that move, whether or not
\* the opponent has a winning or forcing move.
C19_OwnWinShortCircuits ==
    (/\ call.op = "getExpansionMoves"
     /\ CountCells(board, call.player, 5) # {})
    => CellsOf(call.result)
         = { RowMajorFirst(CountCells(board, call.player, 5)) }

\* The cells the threat branch collects for player p: the opponent's
\* winning cell, the opponent's forcing cells and p's own forcing cells
TacticalCells(b, p) ==
    (IF CountCells(b, Other(p), 5) = {} THEN {}
     ELSE { RowMajorFirst(CountCells(b, Other(p), 5)) })
    \cup CountCells(b, Other(p), 4)
    \cup CountCells(b, p, 4)

\* C20: when the player has no immediate winning move and the opponent has
\* a winning or a forcing move, getExpansionMoves returns exactly the
\* deduplicated union of the opponent's winning cell, the opponent's
\* forcing cells and the player's own forcing cells; when neither side has
\* a winning or forcing move it returns getCandidateMoves(board).
C20_ThreatRestrictsExpansion ==
    call.op = "getExpansionMoves"
    => /\ (/\ CountCells(board, call.player, 5) = {}
           /\ \/ CountCells(board, Other(call.player), 5) # {}
              \/ CountCells(board, Other(call.player), 4) # {})
          => /\ CellsOf(call.result) = TacticalCells(board, call.player)
             /\ Len(call.result)
                  = Cardinality(TacticalCells(board, call.player))
       /\ (/\ CountCells(board, call.player, 4) = {}
           /\ CountCells(board, Other(call.player), 4) = {})
          => call.result = getCandidateMoves(board)

\* C20 witness: the opponent can win, the player cannot and has forcing
\* cells of its own that are none of the opponent's
C20_Witness ==
    /\ call.op = "getExpansionMoves"
    /\ CountCells(board, call.player, 5) = {}
    /\ CountCells(board, Other(call.player), 5) # {}
    /\ CountCells(board, call.player, 4)
         \ CountCells(board, Other(call.player), 4) # {}
    /\ Len(call.result) >= 3

\* ------------------------------------------------------------------------
\* Properties of solveVCF (specifications SpecVCF and SpecVCFLive)
\* ------------------------------------------------------------------------

\* C21: solveVCF called with depth 0 returns null for every board and
\* player, whatever forcing moves or immediate wins there are, without
\* computing any forcing move and without changing the board.
C21_DepthZeroReturnsNull ==
    (pc = "returned" /\ call.depth = 0)
    => /\ call.result = NoMove
       /\ call.entries = 0
       /\ board = call.before

\* C21 witness: a call with depth 0, before the deadline, on a board where
\* the player can complete five at once
C21_Witness ==
    /\ pc = "returned"
    /\ call.depth = 0
    /\ call.checks # 0
    /\ CountCells(board, call.player, 5) # {}
    /\ call.result = NoMove

\* C22: a move returned by solveVCF is one of getForcingMoves(board,
\* player) of the board the call was given, an empty cell of that board
\* that gives the player four or more in a line, never a move found only
\* on a deeper board of the recursion.
C22_ReturnsRootForcingMove ==
    (pc = "returned" /\ call.result # NoMove)
    => /\ toIndex(call.result[1], call.result[2])
            \in Range(getForcingMoves(call.before, call.player))
       /\ call.before[call.result[1]][call.result[2]] = 0
       /\ call.result \in CountCells(call.before, call.player, 4)

\* C22 witness: the returned move does not complete five itself, the win
\* was found two calls deeper
C22_Witness ==
    /\ pc = "returned"
    /\ call.result # NoMove
    /\ call.result \notin CountCells(call.before, call.player, 5)
    /\ call.entries >= 3

\* ------------------------------------------------------------------------
\* Properties of the tree search (specifications Spec and SpecTree)
\* ------------------------------------------------------------------------

\* The iteration budget of the request: iterations || 3000, raised to 1000
SafeIterations ==
    LET n == IF request.iterations = 0 THEN 3000 ELSE request.iterations
    IN  IF n >= 1000 THEN n ELSE 1000

\* C23: in the tree search with iteration budget n the loop runs exactly
\* K = max(n, 1000) iterations and does not leave early; root.visits is the
\* number of iterations done so far, so every iteration adds exactly one
\* and root.visits = K when the loop ends.
C23_RootVisitsCountIterations ==
    "mcts" \in phases
    => /\ iterations = SafeIterations
       /\ nodes[1].visits = i
       /\ i <= iterations
       /\ pc \in {"loop", "return", "done"}
       /\ pc # "loop" => i = iterations

\* C23 witness: the loop has ended after 1001 iterations on a board with an
\* empty cell
C23_Witness ==
    /\ "mcts" \in phases
    /\ pc = "return"
    /\ request.iterations = 1001
    /\ Cardinality(Stones(board)) < BOARD_SIZE * BOARD_SIZE
    /\ nodes[1].visits = 1001

\* C24: the move returned after the iterations is the move of a root child
\* whose visit count is maximal among the root's children, whatever the
\* win rates; among children tied for the maximum it is the one inserted
\* first into the root's children map.
C24_RobustChildFirstOfMaxVisits ==
    (pc = "return" /\ Len(nodes[1].children) > 0)
    => \E k \in 1 .. Len(nodes[1].children) :
         LET best == nodes[nodes[1].children[k][2]]
         IN  /\ bestMove = best.move
             /\ bestMove = fromIndex(nodes[1].children[k][1])
             /\ \A j \in 1 .. Len(nodes[1].children) :
                  nodes[nodes[1].children[j][2]].visits <= best.visits
             /\ \A j \in 1 .. (k - 1) :
                  nodes[nodes[1].children[j][2]].visits < best.visits

\* C24 witness: the returned move belongs to the second child inserted;
\* the first has fewer visits and a higher win rate, the third as many
\* visits as the second
C24_Witness ==
    /\ pc = "return"
    /\ Len(nodes[1].children) = 3
    /\ bestMove = nodes[nodes[1].children[2][2]].move
    /\ nodes[nodes[1].children[1][2]].wins2
         * nodes[nodes[1].children[2][2]].visits
       > nodes[nodes[1].children[2][2]].wins2
         * nodes[nodes[1].children[1][2]].visits
    /\ nodes[nodes[1].children[3][2]].visits
         = nodes[nodes[1].children[2][2]].visits

\* The k-th ancestor of node n (0 above the root)
RECURSIVE Up(_, _)
Up(n, k) ==
    IF k = 0 \/ n = 0 THEN n ELSE Up(nodes[n].parent, k - 1)

\* The iteration that ended at node `leaf` passed through node n
PassedThrough(leaf, n) == \E k \in 0 .. Len(nodes) : Up(leaf, k) = n

\* The sum, over the logged iterations from the j-th on that passed through
\* node n, of the doubled outcome for the searching player (flip FALSE) or
\* for the other player (flip TRUE)
RECURSIVE OutcomeSum(_, _, _)
OutcomeSum(n, flip, j) ==
    IF j > Len(call.log) THEN 0
    ELSE (IF PassedThrough(call.log[j][1], n)
          THEN (IF flip THEN 2 - call.log[j][2] ELSE call.log[j][2])
          ELSE 0)
         + OutcomeSum(n, flip, j + 1)

AnswerWins(b, p, m, q) ==
    LET after == makeMove(makeMove(b, m[1], m[2], p), q[1], q[2], Other(p))
    IN  /\ CountCells(after, p, 5) = {}
        /\ Cardinality(CountCells(after, Other(p), 5)) >= 2

\* C26: when solveVCF returns a move m for player P on a board where the
\* opponent has no cell that completes five, P has a forced win starting
\* with m: m completes five, or no reply of the opponent to m, the assumed
\* block included, lets the opponent complete five before P can.
C26_ReturnedMoveWinsByForce ==
    (/\ pc = "returned"
     /\ call.result # NoMove
     /\ CountCells(call.before, Other(call.player), 5) = {})
    => \/ call.result \in CountCells(call.before, call.player, 5)
       \/ \A q \in Idx \X Idx :
            (q # call.result /\ call.before[q[1]][q[2]] = 0)
            => ~AnswerWins(call.before, call.player, call.result, q)

\* Every activation on the stack has one less depth and two more stones
\* than its caller, and the nesting below the outermost call never exceeds
\* the depth that call was given
VcfNesting ==
    pc = "running"
    => /\ Len(frames) - 1 <= call.depth
       /\ \A j \in 1 .. Len(frames) :
            /\ frames[j].depth = call.depth - (j - 1)
            /\ frames[j].depth >= 0
            /\ Cardinality(Stones(frames[j].board))
                 = Cardinality(Stones(call.before)) + 2 * (j - 1)

\* An activation entered after the deadline returns at once, and the entry
\* of an activation with depth left is a deadline test
VcfEntryTest ==
    (pc = "running" /\ Top.stage = "entry")
    => /\ call.checks = 0 => Len(frames') = Len(frames) - 1
       /\ (Top.depth > 0 /\ call.checks \in 1 .. MaxDeadlineChecks)
          => call'.checks = call.checks - 1

\* C27: solveVCF terminates on every board for every depth >= 0, also when
\* the deadline never fires: each recursive call has depth - 1 and a board
\* with exactly two more stones, the nesting never exceeds the initial
\* depth, and the deadline is tested on entry to every call.
C27_VcfTerminates ==
    /\ []VcfNesting
    /\ [][VcfEntryTest]_vars
    /\ (pc = "running") ~> (pc = "returned")

\* C27 witness: a search whose deadline never fires, nested as deep as its
\* initial depth allows
C27_Witness ==
    /\ pc = "running"
    /\ call.checks = NoDeadline
    /\ call.depth >= 2
    /\ Len(frames) = call.depth + 1
    /\ Top.depth = 0

\* The fields of node n that backpropagate and expand may not touch
SameButCounters(a, b) ==
    /\ a.board = b.board
    /\ a.move = b.move
    /\ a.parent = b.parent
    /\ a.player = b.player
    /\ a.children = b.children
    /\ a.untriedMoves = b.untriedMoves

\* C28: backpropagate(node, result, aiPlayer) changes exactly the nodes on
\* the parent chain from node up to and including the root: each gets
\* visits + 1 and wins + result when its player is aiPlayer, else
\* wins + (1 - result); no node off the chain and no board, children map or
\* untried list is changed.
C28_BackpropagateFrame ==
    [][ pc = "backpropagate"
        => /\ Len(nodes') = Len(nodes)
           /\ PassedThrough(call.expandedNode, 1)
           /\ \A n \in 1 .. Len(nodes) :
                IF PassedThrough(call.expandedNode, n)
                THEN /\ nodes'[n].visits = nodes[n].visits + 1
                     /\ nodes'[n].wins2 =
                          nodes[n].wins2
                            + (IF nodes[n].player = aiPlayer
                               THEN call.result2 ELSE 2 - call.result2)
                     /\ SameButCounters(nodes'[n], nodes[n])
                ELSE nodes'[n] = nodes[n]
           /\ board' = board ]_vars

\* C28 witness: a backpropagate with result 0 from a node two levels below
\* the root has been done, in a tree with nodes off its parent chain
C28_Witness ==
    /\ pc = "select"
    /\ Len(call.log) >= 1
    /\ LET leaf == call.log[Len(call.log)][1]
       IN  /\ call.log[Len(call.log)][2] = 0
           /\ nodes[leaf].parent # 0
           /\ nodes[nodes[leaf].parent].parent = 1
           /\ nodes[leaf].visits = call.before[leaf].visits + 1
           /\ nodes[1].visits = call.before[1].visits + 1
           /\ \E n \in 1 .. Len(nodes) :
                /\ ~PassedThrough(leaf, n)
                /\ nodes[n] = call.before[n]

\* C29: expand(node) on a node with untried moves removes exactly one move
\* index from node.untriedMoves, creates one child whose player is the
\* other player than node.player and whose board is node.board plus one
\* stone of that player at the removed index, registers the child under
\* that index in node.children with parent = node, visits = 0 and wins = 0,
\* and leaves node.board unchanged; on a node without untried moves it
\* changes nothing and returns the same node.
C29_ExpandEffect ==
    [][ pc = "expand"
        => IF Len(nodes[call.node].untriedMoves) = 0
           THEN /\ nodes' = nodes
                /\ call'.expandedNode = call.node
           ELSE /\ Len(nodes') = Len(nodes) + 1
                /\ call'.expandedNode = Len(nodes')
                /\ \A n \in 1 .. Len(nodes) : n # call.node => nodes'[n] = nodes[n]
                /\ \E k \in 1 .. Len(nodes[call.node].untriedMoves) :
                     LET old   == nodes[call.node]
                         new   == nodes'[call.node]
                         child == nodes'[Len(nodes')]
                         m     == old.untriedMoves[k]
                     IN  /\ Len(new.untriedMoves) = Len(old.untriedMoves) - 1
                         /\ \A j \in 1 .. Len(new.untriedMoves) :
                              new.untriedMoves[j]
                                = old.untriedMoves[IF j < k THEN j ELSE j + 1]
                         /\ new.children = Append(old.children, << m, Len(nodes') >>)
                         /\ \A j \in 1 .. Len(old.children) : old.children[j][1] # m
                         /\ new.board = old.board
                         /\ new.visits = old.visits /\ new.wins2 = old.wins2
                         /\ new.parent = old.parent /\ new.player = old.player
                         /\ new.move = old.move
                         /\ child.player = Other(old.player)
                         /\ child.player # old.player
                         /\ child.move = << m \div 15, m % 15 >>
                         /\ old.board[m \div 15][m % 15] = 0
                         /\ \A r \in Idx : \A c \in Idx :
                              child.board[r][c] =
                                IF r = m \div 15 /\ c = m % 15
                                THEN child.player ELSE old.board[r][c]
                         /\ child.parent = call.node
                         /\ child.visits = 0 /\ child.wins2 = 0
                         /\ child.children = << >> ]_vars

\* C29 witness: expand has just created a child of a node below the root
\* that had two untried moves
C29_Witness ==
    /\ pc = "simulate"
    /\ call.node # 1
    /\ Len(call.before[call.node].untriedMoves) = 2
    /\ call.expandedNode = Len(nodes)
    /\ nodes[call.expandedNode].parent = call.node
    /\ Len(nodes[call.node].untriedMoves) = 1

\* C30: every child of a node is tried once before any child of that node
\* is revisited: no child of a node has visits >= 2 while the node still
\* has an untried move, and the node select returns lies below nodes whose
\* untried list is empty only.
C30_ChildrenTriedOnceFirst ==
    /\ \A n \in 1 .. Len(nodes) :
         Len(nodes[n].untriedMoves) > 0
         => \A j \in 1 .. Len(nodes[n].children) :
              nodes[nodes[n].children[j][2]].visits <= 1
    /\ pc = "expand"
       => \A k \in 1 .. Len(nodes) :
            (Up(call.node, k) # 0 /\ Up(call.node, k) # call.node)
            => /\ Len(nodes[Up(call.node, k)].untriedMoves) = 0
               /\ Len(nodes[Up(call.node, k)].children) > 0

\* C30 witness: select has descended through the root, whose children have
\* been revisited, to a node that has an untried move and a child tried
\* once
C30_Witness ==
    /\ pc = "expand"
    /\ call.node # 1
    /\ Len(nodes[call.node].untriedMoves) > 0
    /\ Len(nodes[call.node].children) > 0
    /\ nodes[nodes[call.node].children[1][2]].visits = 1
    /\ nodes[call.node].visits >= 2

\* ------------------------------------------------------------------------
\* Properties of simulate (specification SpecSim)
\* ------------------------------------------------------------------------

\* The input board with the first j plies of the rollout on it
BoardAfter(j) ==
    [r \in Idx |-> [c \in Idx |->
        IF \E l \in 1 .. j : call.plies[l][1] = r * 15 + c
        THEN call.plies[CHOOSE l \in 1 .. j : call.plies[l][1] = r * 15 + c][2]
        ELSE call.before[r][c]]]

\* Ply j completes five in a row for the player who made it
PlyWins(j) ==
    \E k \in 1 .. 4 :
       FiveThrough(BoardAfter(j), call.plies[j][1] \div 15,
                   call.plies[j][1] % 15, k)

\* C31: simulate plays at most 225 plies, each on an empty cell with the
\* players alternating from `player`, never changes its input board, and
\* returns only 1, 0 or 0.5: 1 exactly when a ply completes five for
\* aiPlayer, 0 exactly when a ply completes five for the opponent, and 0.5
\* when the ply cap is reached or the board is full, with no winner.
C31_SimulateRollout ==
    pc \in {"rollout", "returned"}
    => /\ board = call.before
       /\ Len(call.plies) <= 225
       /\ call.currentBoard = BoardAfter(Len(call.plies))
       /\ \A j \in 1 .. Len(call.plies) :
            /\ call.plies[j][2] = (IF j % 2 = 1 THEN call.player
                                   ELSE 3 - call.player)
            /\ BoardAfter(j - 1)[call.plies[j][1] \div 15][call.plies[j][1] % 15] = 0
            /\ j < Len(call.plies) => ~PlyWins(j)
       /\ pc = "rollout" => (Len(call.plies) > 0 => ~PlyWins(Len(call.plies)))
       /\ pc = "returned"
          => /\ call.result2 \in {0, 1, 2}
             /\ call.result2 = 2
                  <=> /\ Len(call.plies) > 0
                      /\ PlyWins(Len(call.plies))
                      /\ call.plies[Len(call.plies)][2] = call.aiPlayer
             /\ call.result2 = 0
                  <=> /\ Len(call.plies) > 0
                      /\ PlyWins(Len(call.plies))
                      /\ call.plies[Len(call.plies)][2] # call.aiPlayer
             /\ call.result2 = 1
                  => \/ Len(call.plies) = 225
                     \/ \A r \in Idx : \A c \in Idx : call.currentBoard[r][c] # 0

\* C31 witness: a rollout of at least two plies that aiPlayer won, having
\* moved second
C31_Witness ==
    /\ pc = "returned"
    /\ Len(call.plies) >= 2
    /\ call.result2 = 2
    /\ call.player # call.aiPlayer
    /\ call.plies[Len(call.plies)][2] = call.aiPlayer

\* ------------------------------------------------------------------------
\* Properties of the tree (specification SpecTree), continued
\* ------------------------------------------------------------------------

\* The children of node p, as node indices
ChildrenOf(p) ==
    { nodes[p].children[k][2] : k \in 1 .. Len(nodes[p].children) }

\* Node n was preferred by selectChild over a sibling y with the same
\* positive number of visits
PreferredOver(n, y) ==
    /\ n # 1
    /\ PassedThrough(call.node, n)
    /\ y \in ChildrenOf(nodes[n].parent) \ {n}
    /\ nodes[n].visits > 0
    /\ nodes[y].visits = nodes[n].visits

C33_ReturnedCellEmpty ==
    (/\ pc = "return"
     /\ ValidBoard(board)
     /\ \E r \in Idx : \E c \in Idx : board[r][c] = 0
     /\ bestMove # NoMove)
    => board[bestMove[1]][bestMove[2]] = 0

\* ------------------------------------------------------------------------
\* Properties of the tree (specification SpecTree): players and terminal
\* nodes
\* ------------------------------------------------------------------------

\* The number of moves between the root and node n
Depth(n) == CHOOSE k \in 0 .. Len(nodes) : Up(n, k) = 1 /\ (k > 0 => Up(n, k - 1) # 1)

\* The stone on node n's board at the move that created it
StoneOf(n) == nodes[n].board[nodes[n].move[1]][nodes[n].move[2]]

\* C34 as stated: every child of the root is reached by a stone of the
\* searching player, and along every path the colours alternate starting
\* with the searching player.
C34_RootChildrenSearcherStones ==
    \A n \in 2 .. Len(nodes) :
       StoneOf(n) = (IF Depth(n) % 2 = 1 THEN aiPlayer ELSE Other(aiPlayer))

\* The player for whom the move that created node n completed five in a row
\* (0 when it completed none)
WinnerAt(n) ==
    IF nodes[n].move = NoMove THEN 0
    ELSE IF \E k \in 1 .. 4 :
              FiveThrough(nodes[n].board, nodes[n].move[1], nodes[n].move[2], k)
    THEN StoneOf(n) ELSE 0

\* C35 as stated: when expansion has created a child whose move completes
\* five in a row for player P, the result backpropagated in that iteration
\* is the win of P (1 for the searching player, 0 for the opponent).
C35_WonChildBackpropagatesWin ==
    (/\ pc = "backpropagate"
     /\ call.expandedNode # call.node
     /\ WinnerAt(call.expandedNode) # 0)
    => call.result2 = (IF WinnerAt(call.expandedNode) = aiPlayer THEN 2 ELSE 0)

\* C36: a node whose creating move completed five in a row has no children,
\* after any number of iterations: when select stops at such a node the
\* iteration backpropagates the win of that player from the node itself and
\* expand is not called.
C36_WonNodeHasNoChildren ==
    /\ \A n \in 2 .. Len(nodes) :
          WinnerAt(n) # 0 => Len(nodes[n].children) = 0
    /\ (pc \in {"expand", "simulate", "backpropagate"}
        /\ WinnerAt(call.node) # 0)
       => /\ pc = "backpropagate"
          /\ call.expandedNode = call.node
          /\ call.result2 = (IF WinnerAt(call.node) = aiPlayer THEN 2 ELSE 0)
          /\ nodes = call.before

\* C36 witness: select has stopped a second time at a node whose move
\* completed five and which still has an untried move, and the win is about
\* to be backpropagated
C36_Witness ==
    /\ pc = "backpropagate"
    /\ call.node # 1
    /\ WinnerAt(call.node) # 0
    /\ call.expandedNode = call.node
    /\ Len(nodes[call.node].untriedMoves) > 0
    /\ nodes[call.node].visits >= 2

\* The keys of the children map of node n
ChildKeys(n) ==
    { nodes[n].children[k][1] : k \in 1 .. Len(nodes[n].children) }

\* C37: after every iteration, at every node, the untried move indices and
\* the keys of the children map are disjoint, together they are the move set
\* the node was created with (getExpansionMoves of its board and player),
\* every one of them is an empty cell of the node's board, and the board of
\* each child differs from the node's board at the child's key and nowhere
\* else.
C37_UntriedAndChildrenPartition ==
    pc = "select"
    => \A n \in 1 .. Len(nodes) :
         /\ Range(nodes[n].untriedMoves) \cap ChildKeys(n) = {}
         /\ Cardinality(Range(nodes[n].untriedMoves)) = Len(nodes[n].untriedMoves)
         /\ Cardinality(ChildKeys(n)) = Len(nodes[n].children)
         /\ Range(nodes[n].untriedMoves) \cup ChildKeys(n)
              = Range(getExpansionMoves(nodes[n].board, nodes[n].player))
         /\ \A m \in Range(nodes[n].untriedMoves) \cup ChildKeys(n) :
              /\ m \in 0 .. 224
              /\ nodes[n].board[m \div 15][m % 15] = 0
         /\ \A k \in 1 .. Len(nodes[n].children) :
              LET m == nodes[n].children[k][1]
                  c == nodes[n].children[k][2]
              IN  /\ nodes[c].parent = n
                  /\ nodes[c].move = << m \div 15, m % 15 >>
                  /\ \A r \in Idx : \A q \in Idx :
                       (nodes[c].board[r][q] # nodes[n].board[r][q])
                         <=> (r * 15 + q = m)

\* C37 witness: after an iteration, a node below the root that has both a
\* child and an untried move
C37_Witness ==
    /\ pc = "select"
    /\ i >= 6
    /\ \E n \in 2 .. Len(nodes) :
         /\ Len(nodes[n].children) > 0
         /\ Len(nodes[n].untriedMoves) > 0

\* The sum of the visits of the children ch[k], ..., of a node
RECURSIVE ChildVisits(_, _)
ChildVisits(ch, k) ==
    IF k > Len(ch) THEN 0
    ELSE nodes[ch[k][2]].visits + ChildVisits(ch, k + 1)

\* C38: after every iteration, at every node, 0 <= wins <= visits; every
\* node but the root has visits >= 1; visits is at least the sum of the
\* children's visits; and the visits of a root with a legal move equal the
\* sum of the visits of its children.
C38_VisitCounts ==
    pc = "select"
    => /\ \A n \in 1 .. Len(nodes) :
            /\ 0 <= nodes[n].wins2
            /\ nodes[n].wins2 <= 2 * nodes[n].visits
            /\ n # 1 => nodes[n].visits >= 1
            /\ nodes[n].visits >= ChildVisits(nodes[n].children, 1)
       /\ (\E r \in Idx : \E c \in Idx : board[r][c] = 0)
          => nodes[1].visits = ChildVisits(nodes[1].children, 1)

\* C38 witness: after an iteration, a root with several children visited more
\* than once, one of which has more visits than its own children together
C38_Witness ==
    /\ pc = "select"
    /\ Len(nodes[1].children) >= 2
    /\ nodes[1].visits >= 6
    /\ \E n \in 2 .. Len(nodes) :
         /\ Len(nodes[n].children) > 0
         /\ nodes[n].visits > ChildVisits(nodes[n].children, 1)

\* ------------------------------------------------------------------------
\* Properties of the host (specification SpecHost), continued
\* ------------------------------------------------------------------------

\* The outstanding request was posted for the game as it is now, to the
\* worker whose handler closes over it
RequestIsCurrent ==
    worker.inflight # NoRequest
    => /\ worker.inflight.board = game.board
       /\ worker.inflight.aiPlayer = game.aiPlayer
       /\ worker.closure = Closure(game)
       /\ game.gameMode = "ai"
       /\ game.currentPlayer = game.aiPlayer
       /\ game.isAiThinking
       /\ ~game.gameOver

\* A stone is placed on the AI's turn: the move applied is a reply to the
\* outstanding request, played for the AI on the board shown
AiMoveIsReply ==
    (/\ game.gameMode = "ai"
     /\ game.currentPlayer = game.aiPlayer
     /\ game'.moveCount = game.moveCount + 1)
    => /\ worker.inflight # NoRequest
       /\ \E move \in WorkerReply(worker.inflight) :
            /\ move # NoMove
            /\ game'.board = makeMove(game.board, move[1], move[2],
                                      game.aiPlayer)

\* A reset (New Game, mode toggle, AI-colour toggle) leaves no request
\* outstanding but one posted for the new game; the request that was
\* outstanding is lost with its worker
ResetDropsRequest ==
    (worker.inflight # NoRequest /\ game'.moveCount = 0)
    => /\ worker'.lost
       /\ worker'.inflight # NoRequest
            => /\ worker'.inflight.board = createEmptyBoard
               /\ worker'.inflight.aiPlayer = game'.aiPlayer

\* C39: when the game is reset while a decision request is outstanding, the
\* response to that request is never applied to the new game: the request
\* goes with the terminated worker, the outstanding request is always the
\* one posted for the board shown, and every AI move applied is a reply to
\* it.
C39_NoStaleAiMove ==
    /\ []RequestIsCurrent
    /\ [][AiMoveIsReply /\ ResetDropsRequest]_vars

\* C39 witness: an AI move has been applied in a game that followed a reset
\* made while a request was outstanding
C39_Witness ==
    /\ worker.lost
    /\ game.gameMode = "ai"
    /\ game.moveCount >= 1
    /\ \E r \in Idx : \E c \in Idx : game.board[r][c] = game.aiPlayer
    /\ worker.inflight = NoRequest

\* ------------------------------------------------------------------------
\* Properties of the host (specifications SpecHostLate and SpecHost)
\* ------------------------------------------------------------------------

\* handleCellClick returns before doing anything, whatever the cell
ClickBlocked ==
    \/ game.gameOver
    \/ game.isAiThinking
    \/ (game.gameMode = "ai" /\ game.currentPlayer = game.aiPlayer)

\* A click that changes the game: no reason to return early holds, and the
\* current player's stone is placed on an empty cell
ClickOnlyWhenAllowed ==
    (HandleCellClick /\ game' # game)
    => /\ ~ClickBlocked
       /\ \E r \in Idx : \E c \in Idx :
            /\ game.board[r][c] = 0
            /\ game'.board = makeMove(game.board, r, c, game.currentPlayer)
            /\ game'.moveNumbers[r][c] = game.moveCount + 1
       /\ game'.moveCount = game.moveCount + 1

\* Once the game is over the board changes only by a reset
NoStoneAfterGameOver ==
    (game.gameOver /\ game' # game)
    => /\ game'.board = createEmptyBoard
       /\ game'.moveCount = 0
       /\ ~game'.gameOver
       /\ game'.winner = 0

\* A request is posted to a worker that holds none: while one is
\* outstanding another one appears only with the new worker of a reset
OneRequestAtATime ==
    (/\ worker.inflight # NoRequest
     /\ worker'.inflight # NoRequest
     /\ worker'.inflight # worker.inflight)
    => /\ game'.moveCount = 0
       /\ worker'.inflight.board = createEmptyBoard

\* C40: handleCellClick leaves the game state (board, current player,
\* winner, move numbers and the rest) unchanged when the game is over, the
\* cell is occupied, the AI is thinking or it is the AI's turn in AI mode;
\* so once gameOver is set no stone is placed until a reset, and at most one
\* decision request is outstanding: a request is outstanding exactly while
\* isAiThinking is set, and never a second one with it.
C40_ClickGuards ==
    /\ [](worker.inflight # NoRequest <=> game.isAiThinking)
    /\ [](game.gameOver => worker.inflight = NoRequest)
    /\ [][ClickOnlyWhenAllowed /\ NoStoneAfterGameOver /\ OneRequestAtATime]_vars

\* C40 witness: the game is over by a click that completed five, with the
\* nine stones on the board
C40_Witness ==
    /\ game.gameOver
    /\ game.winner # 0
    /\ game.moveCount = Len(LateStones) + 1
    /\ worker.inflight = NoRequest

====
